---------------------------- MODULE Spec2Model ----------------------------
(***************************************************************************)
(* A model of the SugarCube/Twee document formatter (src/src/formatter.ts)  *)
(* and of the editor integration that turns its line map into text edits    *)
(* (src/src/extension.ts).  Texts are TLA+ strings; a character is a string *)
(* of length one, obtained with SubSeq.  Source line indices are zero-based *)
(* as in the code: source line i is lines[i + 1].                           *)
(***************************************************************************)
EXTENDS Integers, Sequences, FiniteSets, TLC

(***************************************************************************)
(* Characters and strings                                                   *)
(***************************************************************************)
CharAt(s, i) == SubSeq(s, i, i)

CharsOf(s) == {CharAt(s, i) : i \in 1..Len(s)}

\* JavaScript's String.prototype.slice(from, to) with zero-based offsets
\* 0 <= from, to; an empty string when to <= from.
Slice(s, from, to) ==
  LET t == IF to > Len(s) THEN Len(s) ELSE to
  IN  IF t <= from THEN "" ELSE SubSeq(s, from + 1, t)

SliceFrom(s, from) == Slice(s, from, Len(s))

StartsWith(s, p) == Len(s) >= Len(p) /\ SubSeq(s, 1, Len(p)) = p

\* The class \w of JavaScript regular expressions.
WordChars == CharsOf("abcdefghijklmnopqrstuvwxyzABCDEFGHIJKLMNOPQRSTUVWXYZ0123456789_")

\* The class \s (and the characters String.prototype.trim removes),
\* restricted to the characters the model's texts can hold.
SpaceChars == {" ", "\t", "\n", "\r", "\f"}

IsWord(c) == c \in WordChars

IsSpace(c) == c \in SpaceChars

RECURSIVE TrimStart(_)
TrimStart(s) ==
  IF Len(s) > 0 /\ IsSpace(CharAt(s, 1)) THEN TrimStart(SubSeq(s, 2, Len(s))) ELSE s

RECURSIVE TrimEnd(_)
TrimEnd(s) ==
  IF Len(s) > 0 /\ IsSpace(CharAt(s, Len(s))) THEN TrimEnd(SubSeq(s, 1, Len(s) - 1)) ELSE s

\* String.prototype.trim
Trim(s) == TrimEnd(TrimStart(s))

\* String.prototype.repeat for a count n >= 0 (the code never passes a
\* negative count, for which JavaScript raises a RangeError; the model
\* yields the empty string there).
RECURSIVE Repeat(_, _)
Repeat(s, n) == IF n <= 0 THEN "" ELSE s \o Repeat(s, n - 1)

\* ss[lo] \o sep \o ... \o sep \o ss[hi], built by halves.
RECURSIVE JoinRange(_, _, _, _)
JoinRange(ss, sep, lo, hi) ==
  IF lo > hi THEN ""
  ELSE IF lo = hi THEN ss[lo]
  ELSE LET mid == (lo + hi) \div 2
       IN  JoinRange(ss, sep, lo, mid) \o sep \o JoinRange(ss, sep, mid + 1, hi)

\* Array.prototype.join(sep) of a sequence of strings
Join(ss, sep) == JoinRange(ss, sep, 1, Len(ss))

\* The k-th smallest element of a finite set of numbers.
Nth(S, k) == CHOOSE x \in S : Cardinality({y \in S : y < x}) = k - 1

\* String.prototype.split("\n"): the pieces between line feeds; always at
\* least one piece.
SplitLines(s) ==
  LET feeds == {i \in 1..Len(s) : CharAt(s, i) = "\n"}
      count == Cardinality(feeds)
      feed(k) == IF k = 0 THEN 0 ELSE IF k > count THEN Len(s) + 1 ELSE Nth(feeds, k)
  IN  [k \in 1..(count + 1) |-> Slice(s, feed(k - 1), feed(k) - 1)]

\* text.replace(/\r\n/g, "\n").replace(/\r/g, "\n"): a \r before a \n goes,
\* any other \r becomes \n.
NormalizeLineEndings(s) ==
  Join([i \in 1..Len(s) |->
          IF CharAt(s, i) # "\r" THEN CharAt(s, i)
          ELSE IF i < Len(s) /\ CharAt(s, i + 1) = "\n" THEN ""
          ELSE "\n"],
       "")

\* content.replace(/\\'/g, "'").replace(/\\"/g, '"'): first every \' becomes
\* ', then every \" becomes ".
RECURSIVE ReplaceEscaped(_, _, _)
ReplaceEscaped(s, q, i) ==
  IF i > Len(s) THEN ""
  ELSE IF CharAt(s, i) = "\\" /\ i < Len(s) /\ CharAt(s, i + 1) = q
       THEN q \o ReplaceEscaped(s, q, i + 2)
       ELSE CharAt(s, i) \o ReplaceEscaped(s, q, i + 1)

Unescape(content) == ReplaceEscaped(ReplaceEscaped(content, "'", 1), "\"", 1)

\* s.replace(/q/g, "\\q"): a backslash before every q.
RECURSIVE EscapeChar(_, _, _)
EscapeChar(s, q, i) ==
  IF i > Len(s) THEN ""
  ELSE IF CharAt(s, i) = q
       THEN "\\" \o q \o EscapeChar(s, q, i + 1)
       ELSE CharAt(s, i) \o EscapeChar(s, q, i + 1)

(***************************************************************************)
(* Quote normalizer: escapeQuotes, formatQuotedString, formatMacroArguments *)
(***************************************************************************)
escapeQuotes(content, targetQuote) ==
  IF targetQuote = "\""
  THEN EscapeChar(Unescape(content), "\"", 1)
  ELSE EscapeChar(Unescape(content), "'", 1)

\* formatQuotedString with the two forced delimiters exchanged.
formatQuotedStringSwapped(originalQuote, content, quoteStyle) ==
  IF quoteStyle = "preserve"
  THEN originalQuote \o escapeQuotes(content, originalQuote) \o originalQuote
  ELSE LET targetQuote == IF quoteStyle = "single" THEN "\"" ELSE "'"
       IN  targetQuote \o escapeQuotes(content, targetQuote) \o targetQuote

formatQuotedString(originalQuote, content, quoteStyle) ==
  IF quoteStyle = "preserve"
  THEN originalQuote \o escapeQuotes(content, originalQuote) \o originalQuote
  ELSE LET targetQuote == IF quoteStyle = "single" THEN "'" ELSE "\""
       IN  targetQuote \o escapeQuotes(content, targetQuote) \o targetQuote

IsQuote(c) == c \in {"'", "\""}

\* The body (?:[^'"\\]|\\.|(?!\1)['"])* of quotePattern read from offset i
\* (one-based) with opening quote q: the offset of the first character the
\* body cannot take.  The three alternatives start with different
\* characters, so the greedy scan is the only way to read the body.
RECURSIVE QuoteBodyEnd(_, _, _)
QuoteBodyEnd(s, q, i) ==
  IF i > Len(s) THEN i
  ELSE LET c == CharAt(s, i)
       IN  IF c = "\\"
           THEN IF i < Len(s) /\ CharAt(s, i + 1) \notin {"\n", "\r"}
                THEN QuoteBodyEnd(s, q, i + 2)
                ELSE i
           ELSE IF c = q THEN i
           ELSE QuoteBodyEnd(s, q, i + 1)

\* quotePattern.exec from one-based offset i: the next match
\* (['"])(body)\1 at or after i, as [found, start, end, quote, content] with
\* start and end the one-based offsets of the two quotes.
RECURSIVE QuoteMatch(_, _)
QuoteMatch(s, i) ==
  IF i > Len(s) THEN [found |-> FALSE, start |-> 0, end |-> 0, quote |-> "", content |-> ""]
  ELSE IF IsQuote(CharAt(s, i))
       THEN LET e == QuoteBodyEnd(s, CharAt(s, i), i + 1)
            IN  IF e <= Len(s) /\ CharAt(s, e) = CharAt(s, i)
                THEN [found |-> TRUE, start |-> i, end |-> e, quote |-> CharAt(s, i),
                      content |-> IF e = i + 1 THEN "" ELSE SubSeq(s, i + 1, e - 1)]
                ELSE QuoteMatch(s, i + 1)
       ELSE QuoteMatch(s, i + 1)

\* The window of context before a match: macroContent.slice(max(0,
\* matchStart - 10), matchStart); matchStart is zero-based.
ContextWindow == 10

contextBefore(macroContent, matchStart) ==
  Slice(macroContent, IF matchStart > ContextWindow THEN matchStart - ContextWindow ELSE 0,
        matchStart)

\* /\bto\s*$/.test(ctx)
\* isAfterTo without the word boundary before "to".
isAfterToAnywhere(ctx) ==
  LET t == TrimEnd(ctx)
      n == Len(t)
  IN  n >= 2 /\ SubSeq(t, n - 1, n) = "to"

isAfterTo(ctx) ==
  LET t == TrimEnd(ctx)
      n == Len(t)
  IN  /\ n >= 2
      /\ SubSeq(t, n - 1, n) = "to"
      /\ (n = 2 \/ ~IsWord(CharAt(t, n - 2)))

\* /^[$_]/.test(unescapedContent)
looksLikeVariable(unescapedContent) ==
  Len(unescapedContent) > 0 /\ CharAt(unescapedContent, 1) \in {"$", "_"}

\* /[\(,]\s*$/.test(ctx)
isInsideFunctionCall(ctx) ==
  LET t == TrimEnd(ctx)
  IN  Len(t) > 0 /\ CharAt(t, Len(t)) \in {"(", ","}

\* /^[^\s\-\/\\]+$/.test(unescapedContent)
isSingleWord(unescapedContent) ==
  /\ Len(unescapedContent) > 0
  /\ \A i \in 1..Len(unescapedContent) :
       /\ ~IsSpace(CharAt(unescapedContent, i))
       /\ CharAt(unescapedContent, i) \notin {"-", "/", "\\"}

\* The test of formatter.ts:87-93 for one match m of quotePattern.
stripsQuotes(macroContent, m, options) ==
  LET unescapedContent == Unescape(m.content)
      ctx == contextBefore(macroContent, m.start - 1)
  IN  /\ options.stripSingleWordQuotes
      /\ isSingleWord(unescapedContent)
      /\ ~isAfterTo(ctx)
      /\ ~looksLikeVariable(unescapedContent)
      /\ ~isInsideFunctionCall(ctx)

\* What one match is replaced by (formatter.ts:87-98).
formatMatch(macroContent, m, options) ==
  IF stripsQuotes(macroContent, m, options)
  THEN Unescape(m.content)
  ELSE formatQuotedString(m.quote, m.content, options.quoteStyle)

\* The while loop of formatMacroArguments from lastIndex (zero-based) on.
RECURSIVE formatArgumentsFrom(_, _, _)
formatArgumentsFrom(macroContent, lastIndex, options) ==
  LET m == QuoteMatch(macroContent, lastIndex + 1)
  IN  IF ~m.found THEN SliceFrom(macroContent, lastIndex)
      ELSE Slice(macroContent, lastIndex, m.start - 1)
             \o formatMatch(macroContent, m, options)
             \o formatArgumentsFrom(macroContent, m.end, options)

formatMacroArguments(macroContent, options) == formatArgumentsFrom(macroContent, 0, options)

(***************************************************************************)
(* Block-macro classifier: detectBlockMacros                                *)
(***************************************************************************)
\* The offset after the longest run of word characters of s that starts at
\* offset i (i itself when s has no word character there).
RECURSIVE WordEnd(_, _)
WordEnd(s, i) == IF i <= Len(s) /\ IsWord(CharAt(s, i)) THEN WordEnd(s, i + 1) ELSE i

\* ClosingTagAt without the >> after the name.
ClosingTagAtAnyEnd(text, i) ==
  IF Slice(text, i - 1, i + 2) = "<</"
  THEN SubSeq(text, i + 3, WordEnd(text, i + 3) - 1)
  ELSE ""

\* The name matched by /<<\/(\w+)>>/ at offset i of text, or "" when the
\* pattern does not match there.
ClosingTagAt(text, i) ==
  IF Slice(text, i - 1, i + 2) = "<</"
  THEN LET e == WordEnd(text, i + 3)
       IN  IF e > i + 3 /\ Slice(text, e - 1, e + 1) = ">>"
           THEN SubSeq(text, i + 3, e - 1)
           ELSE ""
  ELSE ""

\* detectBlockMacros over the first line only.
detectBlockMacrosOfFirstLine(text) ==
  {ClosingTagAt(SplitLines(text)[1], i) : i \in 1..Len(SplitLines(text)[1])} \ {""}

detectBlockMacros(text) ==
  {ClosingTagAt(text, i) : i \in 1..Len(text)} \ {""}

(***************************************************************************)
(* Line tokenizer: tokenizeLine                                             *)
(***************************************************************************)
\* MacroBodyEnd for the body [^>]*, which holds no >.
RECURSIVE MacroBodyEndWithoutGt(_, _)
MacroBodyEndWithoutGt(s, i) ==
  IF i > Len(s) THEN 0
  ELSE IF CharAt(s, i) # ">" THEN MacroBodyEndWithoutGt(s, i + 1)
  ELSE IF i = Len(s) THEN 0
  ELSE IF CharAt(s, i + 1) = ">" THEN i + 1
  ELSE 0

\* The body (?:[^>]|>[^>])* of macroPattern followed by >>, read from
\* offset i: the offset of the second > of the closing >>, or 0 when the
\* line ends first.  A > is taken only together with a following character
\* other than >, so the body ends at the first > that is followed by >.
RECURSIVE MacroBodyEnd(_, _)
MacroBodyEnd(s, i) ==
  IF i > Len(s) THEN 0
  ELSE IF CharAt(s, i) # ">" THEN MacroBodyEnd(s, i + 1)
  ELSE IF i = Len(s) THEN 0
  ELSE IF CharAt(s, i + 1) = ">" THEN i + 1
  ELSE MacroBodyEnd(s, i + 2)

\* macroPattern /(<<(?:\/?\w+)(?:[^>]|>[^>])*>>)/ at offset i: the offset of
\* the last character of the match, or 0 when there is no match at i.
MacroMatchEnd(s, i) ==
  IF Slice(s, i - 1, i + 1) # "<<" THEN 0
  ELSE LET n == IF Slice(s, i + 1, i + 2) = "/" THEN i + 3 ELSE i + 2
       IN  IF WordEnd(s, n) = n THEN 0 ELSE MacroBodyEnd(s, WordEnd(s, n))

\* line.split(macroPattern): the texts between the matches and, the pattern
\* being one capturing group, the matches themselves, in line order.
RECURSIVE SplitMacros(_, _, _)
SplitMacros(s, i, from) ==
  IF i > Len(s) THEN <<Slice(s, from - 1, Len(s))>>
  ELSE LET e == MacroMatchEnd(s, i)
       IN  IF e > 0
           THEN <<Slice(s, from - 1, i - 1), SubSeq(s, i, e)>> \o SplitMacros(s, e + 1, e + 1)
           ELSE SplitMacros(s, i + 1, from)

\* closingMatch without the anchored ">>": /^<<\/(\w+)/, the name of any part
\* that begins as a closing tag.
closingMatchByPrefix(trimmed) ==
  IF Len(trimmed) >= 4 /\ SubSeq(trimmed, 1, 3) = "<</" /\ WordEnd(trimmed, 4) > 4
  THEN SubSeq(trimmed, 4, WordEnd(trimmed, 4) - 1)
  ELSE ""

\* trimmed.match(/^<<\/(\w+)>>$/): the name, or "" when there is no match.
closingMatch(trimmed) ==
  IF ClosingTagAt(trimmed, 1) # "" /\ Len(ClosingTagAt(trimmed, 1)) + 5 = Len(trimmed)
  THEN ClosingTagAt(trimmed, 1)
  ELSE ""

\* trimmed.match(/^<<(\w+)((?:[^>]|>[^>])*)>>$/): the name, or "" when
\* there is no match.
openingMatch(trimmed) ==
  IF /\ StartsWith(trimmed, "<<")
     /\ WordEnd(trimmed, 3) > 3
     /\ MacroBodyEnd(trimmed, WordEnd(trimmed, 3)) = Len(trimmed)
  THEN SubSeq(trimmed, 3, WordEnd(trimmed, 3) - 1)
  ELSE ""

\* The token of one non-blank part (formatter.ts:238-268).
tokenOf(trimmed, options) ==
  IF closingMatch(trimmed) # ""
  THEN [value |-> trimmed, type |-> "closing-macro", macroName |-> closingMatch(trimmed)]
  ELSE IF openingMatch(trimmed) # ""
  THEN [value |-> formatMacroArguments(trimmed, options), type |-> "opening-macro",
        macroName |-> openingMatch(trimmed)]
  ELSE [value |-> trimmed, type |-> "text", macroName |-> ""]

RECURSIVE tokensOfParts(_, _)
tokensOfParts(parts, options) ==
  IF Len(parts) = 0 THEN <<>>
  ELSE IF Trim(Head(parts)) = "" THEN tokensOfParts(Tail(parts), options)
  ELSE <<tokenOf(Trim(Head(parts)), options)>> \o tokensOfParts(Tail(parts), options)

tokenizeLine(line, options) == tokensOfParts(SplitMacros(line, 1, 1), options)

(***************************************************************************)
(* Structured-passage reformatter: tryFormatJson, tryFormatJsObject         *)
(*                                                                          *)
(* JSON.parse and JSON.stringify are the JavaScript runtime's.  They are    *)
(* modelled for the JSON texts the model's documents can hold: arrays,      *)
(* objects, unsigned integers, the literals true, false and null, and       *)
(* strings without escapes, with keys that are not integer-like (the        *)
(* runtime reorders integer-like keys).                                     *)
(***************************************************************************)
JsonSpace == {" ", "\t", "\n", "\r"}

Digits == CharsOf("0123456789")

RECURSIVE SkipJsonSpace(_, _)
SkipJsonSpace(s, i) ==
  IF i <= Len(s) /\ CharAt(s, i) \in JsonSpace THEN SkipJsonSpace(s, i + 1) ELSE i

RECURSIVE DigitsEnd(_, _)
DigitsEnd(s, i) == IF i <= Len(s) /\ CharAt(s, i) \in Digits THEN DigitsEnd(s, i + 1) ELSE i

\* The offset of the closing quote of a string whose first character is at
\* offset i, or 0 (no closing quote, an escape or a control character).
RECURSIVE StringEnd(_, _)
StringEnd(s, i) ==
  IF i > Len(s) THEN 0
  ELSE IF CharAt(s, i) = "\"" THEN i
  ELSE IF CharAt(s, i) \in {"\\", "\n", "\r", "\t", "\f"} THEN 0
  ELSE StringEnd(s, i + 1)

JsonFail == [ok |-> FALSE, next |-> 0, val |-> [t |-> "none"]]

JsonOk(v, next) == [ok |-> TRUE, next |-> next, val |-> v]

\* The index of key k in keys, or 0.
KeyIndex(keys, k) ==
  IF \E j \in 1..Len(keys) : keys[j] = k
  THEN CHOOSE j \in 1..Len(keys) : keys[j] = k
  ELSE 0

RECURSIVE ParseValue(_, _)
RECURSIVE ParseElements(_, _, _)
RECURSIVE ParseMembers(_, _, _, _)

\* A JSON value starting at offset i: [ok, next, val], next being the offset
\* after the value.
ParseValue(s, i) ==
  IF i > Len(s) THEN JsonFail
  ELSE LET c == CharAt(s, i)
       IN  CASE c = "[" ->
                  LET j == SkipJsonSpace(s, i + 1)
                  IN  IF j <= Len(s) /\ CharAt(s, j) = "]"
                      THEN JsonOk([t |-> "arr", items |-> <<>>], j + 1)
                      ELSE ParseElements(s, j, <<>>)
              [] c = "{" ->
                  LET j == SkipJsonSpace(s, i + 1)
                  IN  IF j <= Len(s) /\ CharAt(s, j) = "}"
                      THEN JsonOk([t |-> "obj", keys |-> <<>>, vals |-> <<>>], j + 1)
                      ELSE ParseMembers(s, j, <<>>, <<>>)
              [] c = "\"" ->
                  LET e == StringEnd(s, i + 1)
                  IN  IF e = 0 THEN JsonFail
                      ELSE JsonOk([t |-> "str", s |-> Slice(s, i, e - 1)], e + 1)
              [] c \in Digits ->
                  LET e == IF c = "0" THEN i + 1 ELSE DigitsEnd(s, i)
                  IN  IF e <= Len(s) /\ CharAt(s, e) \in Digits \cup {".", "e", "E"}
                      THEN JsonFail
                      ELSE JsonOk([t |-> "num", s |-> SubSeq(s, i, e - 1)], e)
              [] c \in {"t", "f", "n"} ->
                  IF Slice(s, i - 1, i + 3) \in {"true", "null"}
                  THEN JsonOk([t |-> "lit", s |-> Slice(s, i - 1, i + 3)], i + 4)
                  ELSE IF Slice(s, i - 1, i + 4) = "false"
                  THEN JsonOk([t |-> "lit", s |-> "false"], i + 5)
                  ELSE JsonFail
              [] OTHER -> JsonFail

\* The elements of an array from offset i on, acc being those read so far.
ParseElements(s, i, acc) ==
  LET v == ParseValue(s, i)
      j == SkipJsonSpace(s, v.next)
  IN  IF ~v.ok \/ j > Len(s) THEN JsonFail
      ELSE IF CharAt(s, j) = "]" THEN JsonOk([t |-> "arr", items |-> Append(acc, v.val)], j + 1)
      ELSE IF CharAt(s, j) = "," THEN ParseElements(s, SkipJsonSpace(s, j + 1), Append(acc, v.val))
      ELSE JsonFail

\* The members of an object from offset i on.  A repeated key keeps its
\* first position and takes the last value.
ParseMembers(s, i, keys, vals) ==
  IF i > Len(s) \/ CharAt(s, i) # "\"" THEN JsonFail
  ELSE LET e == StringEnd(s, i + 1)
           c == IF e = 0 THEN 0 ELSE SkipJsonSpace(s, e + 1)
       IN  IF e = 0 \/ c > Len(s) \/ CharAt(s, c) # ":" THEN JsonFail
           ELSE LET k == Slice(s, i, e - 1)
                    v == ParseValue(s, SkipJsonSpace(s, c + 1))
                    j == SkipJsonSpace(s, v.next)
                    at == KeyIndex(keys, k)
                    ks == IF at = 0 THEN Append(keys, k) ELSE keys
                    vs == IF at = 0 THEN Append(vals, v.val) ELSE [vals EXCEPT ![at] = v.val]
                IN  IF ~v.ok \/ j > Len(s) THEN JsonFail
                    ELSE IF CharAt(s, j) = "}"
                    THEN JsonOk([t |-> "obj", keys |-> ks, vals |-> vs], j + 1)
                    ELSE IF CharAt(s, j) = ","
                    THEN ParseMembers(s, SkipJsonSpace(s, j + 1), ks, vs)
                    ELSE JsonFail

\* JSON.parse(text): [ok, val]; ok is FALSE where JSON.parse throws.
JsonParse(text) ==
  LET v == ParseValue(text, SkipJsonSpace(text, 1))
  IN  IF v.ok /\ SkipJsonSpace(text, v.next) > Len(text) THEN v ELSE JsonFail

\* JSON.stringify(val, null, gap) for a non-empty gap, cur being the
\* indentation of the line the value starts on.
RECURSIVE Stringify(_, _, _)
Stringify(v, gap, cur) ==
  LET inner == cur \o gap
  IN  CASE v.t = "arr" ->
             IF Len(v.items) = 0 THEN "[]"
             ELSE "[\n" \o inner
                    \o Join([j \in 1..Len(v.items) |-> Stringify(v.items[j], gap, inner)],
                            ",\n" \o inner)
                    \o "\n" \o cur \o "]"
         [] v.t = "obj" ->
             IF Len(v.keys) = 0 THEN "{}"
             ELSE "{\n" \o inner
                    \o Join([j \in 1..Len(v.keys) |->
                               "\"" \o v.keys[j] \o "\": " \o Stringify(v.vals[j], gap, inner)],
                            ",\n" \o inner)
                    \o "\n" \o cur \o "}"
         [] v.t = "str" -> "\"" \o v.s \o "\""
         [] OTHER -> v.s

\* The result of a formatter that may fail: [ok, text]; ok FALSE is null.
Null == [ok |-> FALSE, text |-> ""]

Some(text) == [ok |-> TRUE, text |-> text]

tryFormatJson(content, indentStr) ==
  LET trimmed == Trim(content)
      parsed == JsonParse(trimmed)
      jsonIndent == IF indentStr = "" THEN "    " ELSE indentStr
  IN  IF ~StartsWith(trimmed, "{") /\ ~StartsWith(trimmed, "[") THEN Null
      ELSE IF ~parsed.ok THEN Null
      ELSE Some(Stringify(parsed.val, jsonIndent, ""))

\* The identifier characters of jsObjectToJson and jsonToJsObject:
\* [a-zA-Z_$] first, [a-zA-Z0-9_$] after.
IdentStart == (WordChars \ Digits) \cup {"$"}

IdentChars == WordChars \cup {"$"}

RECURSIVE SkipSpace(_, _)
SkipSpace(s, i) == IF i <= Len(s) /\ IsSpace(CharAt(s, i)) THEN SkipSpace(s, i + 1) ELSE i

RECURSIVE IdentEnd(_, _)
IdentEnd(s, i) == IF i <= Len(s) /\ CharAt(s, i) \in IdentChars THEN IdentEnd(s, i + 1) ELSE i

\* ^ under the m flag: offset i starts a line.
LineStart(s, i) == i = 1 \/ (i <= Len(s) + 1 /\ CharAt(s, i - 1) = "\n")

\* \s*([a-zA-Z_$][a-zA-Z0-9_$]*)\s*: at offset i: [ok, name, end], end
\* being the offset of the colon.
UnquotedKeyAt(s, i) ==
  LET n == SkipSpace(s, i)
      e == IF n <= Len(s) /\ CharAt(s, n) \in IdentStart THEN IdentEnd(s, n) ELSE n
      c == SkipSpace(s, e)
  IN  IF e > n /\ c <= Len(s) /\ CharAt(s, c) = ":"
      THEN [ok |-> TRUE, name |-> SubSeq(s, n, e - 1), end |-> c]
      ELSE [ok |-> FALSE, name |-> "", end |-> 0]

\* /(?:^|[{,[\s])\s*[a-zA-Z_$][a-zA-Z0-9_$]*\s*:/m.test(trimmed)
hasUnquotedKeys(trimmed) ==
  \E i \in 1..Len(trimmed) :
     \/ LineStart(trimmed, i) /\ UnquotedKeyAt(trimmed, i).ok
     \/ /\ (CharAt(trimmed, i) \in {"{", ",", "["} \/ IsSpace(CharAt(trimmed, i)))
        /\ UnquotedKeyAt(trimmed, i + 1).ok

\* content.replace(/(?<=^|[{,[\s])\s*([a-zA-Z_$][a-zA-Z0-9_$]*)\s*:/gm, '"$1":')
RECURSIVE QuoteKeys(_, _)
QuoteKeys(s, i) ==
  IF i > Len(s) THEN ""
  ELSE LET behind == \/ LineStart(s, i)
                     \/ CharAt(s, i - 1) \in {"{", ",", "["}
                     \/ IsSpace(CharAt(s, i - 1))
           k == UnquotedKeyAt(s, i)
       IN  IF behind /\ k.ok
           THEN "\"" \o k.name \o "\":" \o QuoteKeys(s, k.end + 1)
           ELSE CharAt(s, i) \o QuoteKeys(s, i + 1)

\* result.replace(/,(\s*[}\]])/g, "$1")
RECURSIVE DropTrailingCommas(_, _)
DropTrailingCommas(s, i) ==
  IF i > Len(s) THEN ""
  ELSE LET n == SkipSpace(s, i + 1)
       IN  IF CharAt(s, i) = "," /\ n <= Len(s) /\ CharAt(s, n) \in {"}", "]"}
           THEN SubSeq(s, i + 1, n) \o DropTrailingCommas(s, n + 1)
           ELSE CharAt(s, i) \o DropTrailingCommas(s, i + 1)

jsObjectToJson(content) == DropTrailingCommas(QuoteKeys(content, 1), 1)

\* jsonContent.replace(/^(\s*)"([a-zA-Z_$][a-zA-Z0-9_$]*)"\s*:/gm, "$1$2:")
RECURSIVE UnquoteKeys(_, _)
UnquoteKeys(s, i) ==
  IF i > Len(s) THEN ""
  ELSE LET q == SkipSpace(s, i)
           e == IF q < Len(s) /\ CharAt(s, q) = "\"" /\ CharAt(s, q + 1) \in IdentStart
                THEN IdentEnd(s, q + 1) ELSE 0
           c == IF e > 0 /\ e <= Len(s) /\ CharAt(s, e) = "\"" THEN SkipSpace(s, e + 1) ELSE 0
       IN  IF LineStart(s, i) /\ c > 0 /\ c <= Len(s) /\ CharAt(s, c) = ":"
           THEN Slice(s, i - 1, q - 1) \o SubSeq(s, q + 1, e - 1) \o ":" \o UnquoteKeys(s, c + 1)
           ELSE CharAt(s, i) \o UnquoteKeys(s, i + 1)

jsonToJsObject(jsonContent, indentStr) == UnquoteKeys(jsonContent, 1)

tryFormatJsObject(content, indentStr) ==
  LET trimmed == Trim(content)
      parsed == JsonParse(jsObjectToJson(trimmed))
      jsonIndent == IF indentStr = "" THEN "    " ELSE indentStr
  IN  IF ~StartsWith(trimmed, "{") /\ ~StartsWith(trimmed, "[") THEN Null
      ELSE IF ~hasUnquotedKeys(trimmed) THEN Null
      ELSE IF ~parsed.ok THEN Null
      ELSE Some(jsonToJsObject(Stringify(parsed.val, jsonIndent, ""), indentStr))

\* formatStructured that returns a bracketed body as it is where it is
\* malformed.
formatStructuredOrVerbatim(contentStr, indentStr) ==
  IF tryFormatJson(contentStr, indentStr).ok
  THEN tryFormatJson(contentStr, indentStr)
  ELSE IF tryFormatJsObject(contentStr, indentStr).ok
  THEN tryFormatJsObject(contentStr, indentStr)
  ELSE IF StartsWith(Trim(contentStr), "[") \/ StartsWith(Trim(contentStr), "{")
  THEN Some(Trim(contentStr))
  ELSE Null

\* tryFormatJson(contentStr, indentStr) ?? tryFormatJsObject(contentStr, indentStr)
formatStructured(contentStr, indentStr) ==
  IF tryFormatJson(contentStr, indentStr).ok
  THEN tryFormatJson(contentStr, indentStr)
  ELSE tryFormatJsObject(contentStr, indentStr)

(***************************************************************************)
(* Configuration (src/src/config.ts)                                        *)
(*                                                                          *)
(* emptyLinesBeforePassages has the type "preserve" | 0 | 1 | 2; the model  *)
(* carries it as one of the strings "preserve", "0", "1", "2" and converts  *)
(* with targetEmptyLinesOf where the code casts it to a number.             *)
(***************************************************************************)
defaultOptions ==
  [stripSingleWordQuotes |-> TRUE,
   quoteStyle |-> "double",
   emptyLinesBeforePassages |-> "2",
   indentationEnabled |-> TRUE,
   indentationStyle |-> "spaces",
   indentationSize |-> 4,
   formatJsonPassages |-> TRUE,
   customMidBlockMacros |-> <<>>]

\* The spread in the other order, { ...options, ...defaultOptions }: the
\* defaults win.
mergeOptionsDefaultsLast(defaults, given) ==
  [k \in DOMAIN defaults \cup DOMAIN given |->
     IF k \in DOMAIN defaults THEN defaults[k] ELSE given[k]]

\* { ...defaultOptions, ...options }
mergeOptions(defaults, given) ==
  [k \in DOMAIN defaults \cup DOMAIN given |->
     IF k \in DOMAIN given THEN given[k] ELSE defaults[k]]

targetEmptyLinesOf(emptyLinesSetting) ==
  CASE emptyLinesSetting = "0" -> 0
    [] emptyLinesSetting = "1" -> 1
    [] emptyLinesSetting = "2" -> 2

builtinMidBlockMacros ==
  {"else", "elseif", "case", "default", "stop", "next", "option", "optionsfrom", "track"}

\* midBlockMacrosOf without the configured names.
midBlockMacrosBuiltinOnly(mergedOptions) == builtinMidBlockMacros

midBlockMacrosOf(mergedOptions) ==
  builtinMidBlockMacros
    \cup {mergedOptions.customMidBlockMacros[j] : j \in 1..Len(mergedOptions.customMidBlockMacros)}

indentStrOf(mergedOptions) ==
  IF mergedOptions.indentationEnabled
  THEN IF mergedOptions.indentationStyle = "tabs"
       THEN "\t"
       ELSE Repeat(" ", mergedOptions.indentationSize)
  ELSE ""

(***************************************************************************)
(* Indentation and passage-boundary engine: formatSugarCubeDocument         *)
(***************************************************************************)
VARIABLES
  text,                    \* the document handed to formatSugarCubeDocument
  options,                 \* mergedOptions
  lines,                   \* normalizedText.split("\n")
  blockMacros,             \* detectBlockMacros(normalizedText)
  lineIndex,               \* the main loop's index (zero-based)
  indentLevel,
  seenFirstPassage,
  outputLines,
  formattedLinesBySource,  \* the line map: source line index -> output lines
  tokens,                  \* the tokens of the line being processed
  tokenIndex,              \* the token loop's index i (zero-based)
  outputForThisLine,
  renderIndent,            \* the count given to indentStr.repeat for the last token
  pc,                      \* "line", "token", "done", "edited"
  formattedText,           \* the returned text (once pc = "done")
  editedText,              \* the document after the editor applied the edits
  pass,                    \* 1: formatting the document; 2: formatting its result
  firstText,               \* the result of pass 1 (in pass 2)
  macroContent,            \* formatMacroArguments: the tag being rewritten
  lastIndex,               \* formatMacroArguments: the offset after the last match
  result,                  \* formatMacroArguments: the text built so far
  match,                   \* formatMacroArguments: the last match of quotePattern
  calls,                   \* the calls of formatSugarCubeDocument that returned before this one
  optionsArg,              \* the options argument of the call: <<>> when it was left out
  configContent,           \* parseTweeConfig: the text of the config file
  isYaml,                  \* parseTweeConfig: whether the text is read as YAML
  parsed,                  \* parseTweeConfig: the customMidBlockMacros it returned
  rootDir,                 \* loadTweeConfig: the directory, [readable, files]
  fileIndex,               \* loadTweeConfig: the number of files the loop is done with
  loadResult               \* loadTweeConfig: result.customMidBlockMacros

vars ==
  <<text, options, lines, blockMacros, lineIndex, indentLevel, seenFirstPassage,
    outputLines, formattedLinesBySource, tokens, tokenIndex, outputForThisLine,
    renderIndent, pc, formattedText, editedText, pass, firstText, macroContent,
    lastIndex, result, match, calls, optionsArg, configContent, isYaml, parsed,
    rootDir,
    fileIndex, loadResult>>

\* The variables of the formatter and of the editor integration.
vars_formatter ==
  <<text, options, lines, blockMacros, lineIndex, indentLevel, seenFirstPassage,
    outputLines, formattedLinesBySource, tokens, tokenIndex, outputForThisLine,
    renderIndent, formattedText, editedText, pass, firstText, macroContent,
    lastIndex, result, match, calls, optionsArg>>

\* The variables of the twee-config loader.
loaderVars == <<configContent, isYaml, parsed, rootDir, fileIndex, loadResult>>

\* The variables of formatMacroArguments' loop.
quoteVars == <<macroContent, lastIndex, result, match>>

NoMatch == [found |-> FALSE, start |-> 0, end |-> 0, quote |-> "", content |-> ""]

lineCount == Len(lines)

rawLine == lines[lineIndex + 1]

trimmedLine == Trim(rawLine)

indentStr == indentStrOf(options)

midBlockMacros == midBlockMacrosOf(options)

isPassageHeader(line) == StartsWith(Trim(line), "::")

\* The number of empty strings at the end of out (formatter.ts:372-379).
\* trailingEmptyCountOf counting every empty output line, not only the run
\* at the end.
emptyCountOf(out) == Cardinality({p \in 1..Len(out) : out[p] = ""})

RECURSIVE trailingEmptyCountOf(_)
trailingEmptyCountOf(out) ==
  IF Len(out) > 0 /\ out[Len(out)] = ""
  THEN 1 + trailingEmptyCountOf(SubSeq(out, 1, Len(out) - 1))
  ELSE 0

\* One pass of the inner loop of formatter.ts:388-401: an empty string is
\* pushed to the entry of the nearest source line before index that has any
\* output.
pushEmptyToPrevious(map, index) ==
  LET cands == {j \in 0..(index - 1) : Len(map[j]) > 0}
  IN  IF cands = {} THEN map
      ELSE LET j == CHOOSE c \in cands : \A d \in cands : d <= c
           IN  [map EXCEPT ![j] = Append(map[j], "")]

RECURSIVE addEmptyLines(_, _, _)
addEmptyLines(map, index, emptyLinesToAdd) ==
  IF emptyLinesToAdd = 0 THEN map
  ELSE addEmptyLines(pushEmptyToPrevious(map, index), index, emptyLinesToAdd - 1)

\* The loop of formatter.ts:410-419: excessLines > 0 stays true, so every
\* entry before index that holds only empty strings is reset.
resetBlankEntries(map, index) ==
  [j \in DOMAIN map |->
     IF j < index /\ Len(map[j]) > 0 /\ (\A l \in 1..Len(map[j]) : map[j][l] = "")
     THEN <<>>
     ELSE map[j]]

\* adjustEmptyLines with "preserve" taken as 0.
adjustEmptyLinesUnderPreserve(out, map, index, isFirstPassage, emptyLinesSetting) ==
  IF isFirstPassage THEN [out |-> out, map |-> map]
  ELSE LET trailingEmptyCount == trailingEmptyCountOf(out)
           targetEmptyLines ==
             IF emptyLinesSetting = "preserve" THEN 0
             ELSE targetEmptyLinesOf(emptyLinesSetting)
       IN  IF trailingEmptyCount < targetEmptyLines
           THEN [out |-> out \o [k \in 1..(targetEmptyLines - trailingEmptyCount) |-> ""],
                 map |-> addEmptyLines(map, index, targetEmptyLines - trailingEmptyCount)]
           ELSE IF trailingEmptyCount > targetEmptyLines
           THEN [out |-> SubSeq(out, 1, Len(out) - (trailingEmptyCount - targetEmptyLines)),
                 map |-> resetBlankEntries(map, index)]
           ELSE [out |-> out, map |-> map]

\* The blank-line adjustment before a passage header (formatter.ts:368-421):
\* the output lines and the line map after it.
adjustEmptyLines(out, map, index, isFirstPassage, emptyLinesSetting) ==
  IF isFirstPassage \/ emptyLinesSetting = "preserve" THEN [out |-> out, map |-> map]
  ELSE LET targetEmptyLines == targetEmptyLinesOf(emptyLinesSetting)
           trailingEmptyCount == trailingEmptyCountOf(out)
       IN  IF trailingEmptyCount < targetEmptyLines
           THEN [out |-> out \o [k \in 1..(targetEmptyLines - trailingEmptyCount) |-> ""],
                 map |-> addEmptyLines(map, index, targetEmptyLines - trailingEmptyCount)]
           ELSE IF trailingEmptyCount > targetEmptyLines
           THEN [out |-> SubSeq(out, 1, Len(out) - (trailingEmptyCount - targetEmptyLines)),
                 map |-> resetBlankEntries(map, index)]
           ELSE [out |-> out, map |-> map]

\* The index of the next passage header after index, or the line count
\* (formatter.ts:431-437).
passageEndIndexOf(ls, index) ==
  LET heads == {k \in (index + 1)..(Len(ls) - 1) : isPassageHeader(ls[k + 1])}
  IN  IF heads = {} THEN Len(ls) ELSE CHOOSE k \in heads : \A h \in heads : k <= h

\* lines[contentStartIndex .. passageEndIndex - 1] joined (formatter.ts:440-447).
contentStrOf(ls, contentStartIndex, passageEndIndex) ==
  Join(SubSeq(ls, contentStartIndex + 1, passageEndIndex), "\n")

\* reflowPassage that pushes the surplus serialized lines to the output only,
\* not to the entry of the last body line.
reflowPassageSurplusUnmapped(out, map, contentStartIndex, passageEndIndex, jsonLines) ==
  LET contentLength == passageEndIndex - contentStartIndex
      direct == IF Len(jsonLines) < contentLength THEN Len(jsonLines) ELSE contentLength
      more == Len(jsonLines) > contentLength /\ contentLength > 0
      rest == IF more THEN SubSeq(jsonLines, contentLength + 1, Len(jsonLines)) ELSE <<>>
  IN  [out |-> out \o SubSeq(jsonLines, 1, direct) \o rest,
       map |-> [j \in DOMAIN map |->
                  IF j >= contentStartIndex /\ j < passageEndIndex
                  THEN IF j - contentStartIndex < Len(jsonLines)
                       THEN <<jsonLines[j - contentStartIndex + 1]>>
                       ELSE <<>>
                  ELSE map[j]]]

\* The output lines and the line map after a structured passage body has
\* been replaced by jsonLines (formatter.ts:456-482).
reflowPassage(out, map, contentStartIndex, passageEndIndex, jsonLines) ==
  LET contentLength == passageEndIndex - contentStartIndex
      direct == IF Len(jsonLines) < contentLength THEN Len(jsonLines) ELSE contentLength
      map1 == [j \in DOMAIN map |->
                 IF j >= contentStartIndex /\ j < passageEndIndex
                 THEN IF j - contentStartIndex < Len(jsonLines)
                      THEN <<jsonLines[j - contentStartIndex + 1]>>
                      ELSE <<>>
                 ELSE map[j]]
      more == Len(jsonLines) > contentLength /\ contentLength > 0
      rest == IF more THEN SubSeq(jsonLines, contentLength + 1, Len(jsonLines)) ELSE <<>>
  IN  [out |-> out \o SubSeq(jsonLines, 1, direct) \o rest,
       map |-> IF more
               THEN [map1 EXCEPT ![passageEndIndex - 1] = map1[passageEndIndex - 1] \o rest]
               ELSE map1]

\* startState with the line map initialized one index too far.
startStateOneKeyMore(t, given) ==
  LET normalizedText == NormalizeLineEndings(t)
  IN  [text |-> t,
       options |-> mergeOptions(defaultOptions, given),
       lines |-> SplitLines(normalizedText),
       blockMacros |-> detectBlockMacros(normalizedText),
       map |-> [j \in 0..Len(SplitLines(normalizedText)) |-> <<>>]]

\* The state after the initialization of formatter.ts:287-340 for a
\* document t and the options given by the caller.
startState(t, given) ==
  LET normalizedText == NormalizeLineEndings(t)
  IN  [text |-> t,
       options |-> mergeOptions(defaultOptions, given),
       lines |-> SplitLines(normalizedText),
       blockMacros |-> detectBlockMacros(normalizedText),
       map |-> [j \in 0..(Len(SplitLines(normalizedText)) - 1) |-> <<>>]]

\* The loader has not been called.
loaderIdle ==
  /\ configContent = ""
  /\ isYaml = FALSE
  /\ parsed = <<>>
  /\ rootDir = [readable |-> TRUE, files |-> <<>>]
  /\ fileIndex = 0
  /\ loadResult = <<>>

\* The loop variables before the first iteration (formatter.ts:322-332).
loopStart ==
  /\ lineIndex = 0
  /\ indentLevel = 0
  /\ seenFirstPassage = FALSE
  /\ outputLines = <<>>
  /\ tokens = <<>>
  /\ tokenIndex = 0
  /\ outputForThisLine = <<>>
  /\ renderIndent = 0
  /\ formattedText = ""
  /\ editedText = ""
  /\ pass = 1
  /\ firstText = ""
  /\ calls = <<>>

\* options: FormatterOptions = defaultOptions (formatter.ts:285): the
\* parameter's value for the argument list args, <<>> or <<given>>.
optionsParameter(args) == IF args = <<>> THEN defaultOptions ELSE args[1]

\* The first call of formatSugarCubeDocument, for a document t and the
\* options argument args, up to the head of the main loop.
Call(t, args) ==
  /\ loaderIdle
  /\ optionsArg = args
  /\ text = startState(t, optionsParameter(args)).text
  /\ options = startState(t, optionsParameter(args)).options
  /\ lines = startState(t, optionsParameter(args)).lines
  /\ blockMacros = startState(t, optionsParameter(args)).blockMacros
  /\ formattedLinesBySource = startState(t, optionsParameter(args)).map
  /\ loopStart
  /\ pc = "line"
  /\ macroContent = ""
  /\ lastIndex = 0
  /\ result = ""
  /\ match = NoMatch

Start(t, given) == Call(t, <<given>>)

unchangedInput ==
  UNCHANGED <<text, options, lines, blockMacros, pass, firstText, editedText, quoteVars,
              calls, optionsArg, loaderVars>>

\* SkipLeadingBlank that drops a blank line only while there is no output yet:
\* a blank line after the first text before any header is kept.
SkipLeadingBlankUntilOutput ==
  /\ pc = "line" /\ lineIndex < lineCount
  /\ trimmedLine = "" /\ ~seenFirstPassage
  /\ formattedLinesBySource' =
       [formattedLinesBySource EXCEPT ![lineIndex] = IF outputLines = <<>> THEN <<>> ELSE <<"">>]
  /\ outputLines' = IF outputLines = <<>> THEN outputLines ELSE Append(outputLines, "")
  /\ lineIndex' = lineIndex + 1
  /\ unchangedInput
  /\ UNCHANGED <<indentLevel, seenFirstPassage, tokens, tokenIndex,
                 outputForThisLine, renderIndent, pc, formattedText>>

\* SkipLeadingBlank with an empty string as the entry of the line.
SkipLeadingBlankMappedToEmptyLine ==
  /\ pc = "line" /\ lineIndex < lineCount
  /\ trimmedLine = "" /\ ~seenFirstPassage
  /\ formattedLinesBySource' = [formattedLinesBySource EXCEPT ![lineIndex] = <<"">>]
  /\ lineIndex' = lineIndex + 1
  /\ unchangedInput
  /\ UNCHANGED <<indentLevel, seenFirstPassage, outputLines, tokens, tokenIndex,
                 outputForThisLine, renderIndent, pc, formattedText>>

\* formatter.ts:347-351
SkipLeadingBlank ==
  /\ pc = "line" /\ lineIndex < lineCount
  /\ trimmedLine = "" /\ ~seenFirstPassage
  /\ formattedLinesBySource' = [formattedLinesBySource EXCEPT ![lineIndex] = <<>>]
  /\ lineIndex' = lineIndex + 1
  /\ unchangedInput
  /\ UNCHANGED <<indentLevel, seenFirstPassage, outputLines, tokens, tokenIndex,
                 outputForThisLine, renderIndent, pc, formattedText>>

\* formatter.ts:353-358
PreserveBlank ==
  /\ pc = "line" /\ lineIndex < lineCount
  /\ trimmedLine = "" /\ seenFirstPassage
  /\ formattedLinesBySource' = [formattedLinesBySource EXCEPT ![lineIndex] = <<"">>]
  /\ outputLines' = Append(outputLines, "")
  /\ lineIndex' = lineIndex + 1
  /\ unchangedInput
  /\ UNCHANGED <<indentLevel, seenFirstPassage, tokens, tokenIndex, outputForThisLine,
                 renderIndent, pc, formattedText>>

\* PassageHeader without the reset of indentLevel.
PassageHeaderKeepingIndent ==
  /\ pc = "line" /\ lineIndex < lineCount
  /\ trimmedLine # "" /\ StartsWith(trimmedLine, "::")
  /\ LET adjusted == adjustEmptyLines(outputLines, formattedLinesBySource, lineIndex,
                                      ~seenFirstPassage, options.emptyLinesBeforePassages)
         out == Append(adjusted.out, trimmedLine)
         map == [adjusted.map EXCEPT ![lineIndex] = <<trimmedLine>>]
         passageEndIndex == passageEndIndexOf(lines, lineIndex)
         formattedJson ==
           IF options.formatJsonPassages
           THEN formatStructured(contentStrOf(lines, lineIndex + 1, passageEndIndex), indentStr)
           ELSE Null
         reflowed == reflowPassage(out, map, lineIndex + 1, passageEndIndex,
                                   SplitLines(formattedJson.text))
     IN  IF formattedJson.ok
         THEN /\ outputLines' = reflowed.out
              /\ formattedLinesBySource' = reflowed.map
              /\ lineIndex' = passageEndIndex
         ELSE /\ outputLines' = out
              /\ formattedLinesBySource' = map
              /\ lineIndex' = lineIndex + 1
  /\ seenFirstPassage' = TRUE
  /\ indentLevel' = indentLevel
  /\ unchangedInput
  /\ UNCHANGED <<tokens, tokenIndex, outputForThisLine, renderIndent, pc, formattedText>>

\* formatter.ts:360-491
PassageHeader ==
  /\ pc = "line" /\ lineIndex < lineCount
  /\ trimmedLine # "" /\ StartsWith(trimmedLine, "::")
  /\ LET adjusted == adjustEmptyLines(outputLines, formattedLinesBySource, lineIndex,
                                      ~seenFirstPassage, options.emptyLinesBeforePassages)
         out == Append(adjusted.out, trimmedLine)
         map == [adjusted.map EXCEPT ![lineIndex] = <<trimmedLine>>]
         passageEndIndex == passageEndIndexOf(lines, lineIndex)
         formattedJson ==
           IF options.formatJsonPassages
           THEN formatStructured(contentStrOf(lines, lineIndex + 1, passageEndIndex), indentStr)
           ELSE Null
         reflowed == reflowPassage(out, map, lineIndex + 1, passageEndIndex,
                                   SplitLines(formattedJson.text))
     IN  IF formattedJson.ok
         THEN /\ outputLines' = reflowed.out
              /\ formattedLinesBySource' = reflowed.map
              /\ lineIndex' = passageEndIndex
         ELSE /\ outputLines' = out
              /\ formattedLinesBySource' = map
              /\ lineIndex' = lineIndex + 1
  /\ seenFirstPassage' = TRUE
  /\ indentLevel' = 0
  /\ unchangedInput
  /\ UNCHANGED <<tokens, tokenIndex, outputForThisLine, renderIndent, pc, formattedText>>

\* formatter.ts:493-497: the line is tokenized and the token loop starts.
Tokenize ==
  /\ pc = "line" /\ lineIndex < lineCount
  /\ trimmedLine # "" /\ ~StartsWith(trimmedLine, "::")
  /\ tokens' = tokenizeLine(trimmedLine, options)
  /\ tokenIndex' = 0
  /\ outputForThisLine' = <<>>
  /\ pc' = "token"
  /\ unchangedInput
  /\ UNCHANGED <<lineIndex, indentLevel, seenFirstPassage, outputLines,
                 formattedLinesBySource, renderIndent, formattedText>>

token == tokens[tokenIndex + 1]

inTokenLoop == pc = "token" /\ tokenIndex < Len(tokens)

\* formattedLine = indentStr.repeat(level) + token.value, pushed to both lists.
Render(level) ==
  /\ renderIndent' = level
  /\ outputForThisLine' = Append(outputForThisLine, Repeat(indentStr, level) \o token.value)
  /\ outputLines' = Append(outputLines, Repeat(indentStr, level) \o token.value)
  /\ tokenIndex' = tokenIndex + 1
  /\ unchangedInput
  /\ UNCHANGED <<lineIndex, seenFirstPassage, formattedLinesBySource, tokens, pc,
                 formattedText>>

\* The level a closing tag leaves (formatter.ts:503-505).
\* levelAfterClosing without the clamp at 0.
levelAfterClosingUnclamped(level, name) ==
  IF name \in blockMacros THEN level - 1 ELSE level

levelAfterClosing(level, name) ==
  IF name \in blockMacros
  THEN IF level - 1 > 0 THEN level - 1 ELSE 0
  ELSE level

\* formatter.ts:501-508
ClosingMacro ==
  /\ inTokenLoop /\ token.type = "closing-macro"
  /\ indentLevel' = levelAfterClosing(indentLevel, token.macroName)
  /\ Render(levelAfterClosing(indentLevel, token.macroName))

\* OpeningBlockMacro with the increment before the rendering.
OpeningBlockMacroRenderedDeeper ==
  /\ inTokenLoop /\ token.type = "opening-macro"
  /\ token.macroName \in blockMacros
  /\ indentLevel' = indentLevel + 1
  /\ Render(indentLevel + 1)

\* formatter.ts:510-515
OpeningBlockMacro ==
  /\ inTokenLoop /\ token.type = "opening-macro"
  /\ token.macroName \in blockMacros
  /\ indentLevel' = indentLevel + 1
  /\ Render(indentLevel)

\* Whether an opening tag takes the mid-block branch (formatter.ts:516).
takesMidBlockBranch(level, name) == level > 0 /\ name \in midBlockMacros

\* MidBlockMacro tested before the block-macro branch: a mid-block name inside
\* an open block is rendered one level up even when it is also a block macro.
MidBlockMacroFirst ==
  /\ inTokenLoop /\ token.type = "opening-macro"
  /\ takesMidBlockBranch(indentLevel, token.macroName)
  /\ indentLevel' = indentLevel
  /\ Render(indentLevel - 1)

\* formatter.ts:516-521
MidBlockMacro ==
  /\ inTokenLoop /\ token.type = "opening-macro"
  /\ token.macroName \notin blockMacros
  /\ takesMidBlockBranch(indentLevel, token.macroName)
  /\ indentLevel' = indentLevel
  /\ Render(indentLevel - 1)

\* formatter.ts:522-527
RegularMacro ==
  /\ inTokenLoop /\ token.type = "opening-macro"
  /\ token.macroName \notin blockMacros
  /\ ~takesMidBlockBranch(indentLevel, token.macroName)
  /\ indentLevel' = indentLevel
  /\ Render(indentLevel)

\* formatter.ts:528-533
TextContent ==
  /\ inTokenLoop /\ token.type = "text"
  /\ indentLevel' = indentLevel
  /\ Render(indentLevel)

\* formatter.ts:536: the end of the token loop and of the iteration.
\* EndOfLine that leaves the main loop's index where it is.
EndOfLineStay ==
  /\ pc = "token" /\ tokenIndex = Len(tokens)
  /\ formattedLinesBySource' = [formattedLinesBySource EXCEPT ![lineIndex] = outputForThisLine]
  /\ pc' = "line"
  /\ unchangedInput
  /\ UNCHANGED <<lineIndex, indentLevel, seenFirstPassage, outputLines, tokens, tokenIndex,
                 outputForThisLine, renderIndent, formattedText>>

EndOfLine ==
  /\ pc = "token" /\ tokenIndex = Len(tokens)
  /\ formattedLinesBySource' = [formattedLinesBySource EXCEPT ![lineIndex] = outputForThisLine]
  /\ lineIndex' = lineIndex + 1
  /\ pc' = "line"
  /\ unchangedInput
  /\ UNCHANGED <<indentLevel, seenFirstPassage, outputLines, tokens, tokenIndex,
                 outputForThisLine, renderIndent, formattedText>>

\* formatter.ts:539-542
Return ==
  /\ pc = "line" /\ lineIndex >= lineCount
  /\ formattedText' = Join(outputLines, "\n")
  /\ pc' = "done"
  /\ unchangedInput
  /\ UNCHANGED <<lineIndex, indentLevel, seenFirstPassage, outputLines,
                 formattedLinesBySource, tokens, tokenIndex, outputForThisLine,
                 renderIndent>>

(***************************************************************************)
(* Editor integration: provideDocumentFormattingEdits (src/src/extension.ts)*)
(***************************************************************************)
\* The line break that ends each line of the editor's document (the last
\* line has none): the editor splits at \r\n, \n and \r.
lineBreaksOf(t) ==
  LET starts == {i \in 1..Len(t) :
                   \/ CharAt(t, i) = "\r"
                   \/ CharAt(t, i) = "\n" /\ (i = 1 \/ CharAt(t, i - 1) # "\r")}
      breakAt(i) == IF CharAt(t, i) = "\n" THEN "\n"
                    ELSE IF i < Len(t) /\ CharAt(t, i + 1) = "\n" THEN "\r\n"
                    ELSE "\r"
  IN  [k \in 1..(Cardinality(starts) + 1) |->
         IF k > Cardinality(starts) THEN "" ELSE breakAt(Nth(starts, k))]

\* What the span of source line sourceLineIndex (with its line break) holds
\* after the edits are applied (extension.ts:44-66).
editedLine(sourceLineIndex, sourceText, lineBreak, formattedLines, documentLineCount) ==
  LET formatted == Join(formattedLines, "\n")
  IN  IF sourceText # formatted
      THEN IF sourceLineIndex = documentLineCount - 1
           THEN formatted
           ELSE IF Len(formatted) > 0 THEN formatted \o "\n" ELSE ""
      ELSE sourceText \o lineBreak

\* The document after every edit of provideDocumentFormattingEdits has been
\* applied; the edits replace disjoint line spans.
applyEdits(t, sourceLines, map) ==
  LET breaks == lineBreaksOf(t)
  IN  Join([j \in 1..Len(sourceLines) |->
              editedLine(j - 1, sourceLines[j], breaks[j], map[j - 1], Len(sourceLines))],
           "")

\* extension.ts:30-70
ProvideEdits ==
  /\ pc = "done" /\ pass = 1
  /\ editedText' = applyEdits(text, lines, formattedLinesBySource)
  /\ pc' = "edited"
  /\ UNCHANGED <<text, options, lines, blockMacros, lineIndex, indentLevel,
                 seenFirstPassage, outputLines, formattedLinesBySource, tokens,
                 tokenIndex, outputForThisLine, renderIndent, formattedText, pass,
                 firstText, quoteVars, calls, optionsArg, loaderVars>>

(***************************************************************************)
(* A second run on the result of the first: format(format(T, C).text, C)    *)
(***************************************************************************)
Reformat ==
  /\ pc = "done" /\ pass = 1
  /\ text' = startState(formattedText, options).text
  /\ options' = startState(formattedText, options).options
  /\ optionsArg' = <<options>>
  /\ lines' = startState(formattedText, options).lines
  /\ blockMacros' = startState(formattedText, options).blockMacros
  /\ formattedLinesBySource' = startState(formattedText, options).map
  /\ lineIndex' = 0
  /\ indentLevel' = 0
  /\ seenFirstPassage' = FALSE
  /\ outputLines' = <<>>
  /\ tokens' = <<>>
  /\ tokenIndex' = 0
  /\ outputForThisLine' = <<>>
  /\ renderIndent' = 0
  /\ pc' = "line"
  /\ formattedText' = ""
  /\ pass' = 2
  /\ firstText' = formattedText
  /\ UNCHANGED <<editedText, quoteVars, calls, loaderVars>>

\* What a call that returned leaves behind for the comparison of calls: its
\* arguments and its result.
returnedCall ==
  [text |-> text, optionsArg |-> optionsArg, options |-> options,
   formattedText |-> formattedText, formattedLinesBySource |-> formattedLinesBySource]

\* The longest sequence of calls of one run of the host.
MaxCalls == 3

\* FormatAnother with indentLevel, seenFirstPassage and the block-macro set
\* living outside the function: the next call starts with what the last one
\* left in them.
FormatAnotherKeepingState(t, given) ==
  /\ pc = "done" /\ Len(calls) + 1 < MaxCalls
  /\ calls' = Append(calls, returnedCall)
  /\ text' = startState(t, given).text
  /\ options' = startState(t, given).options
  /\ optionsArg' = <<given>>
  /\ lines' = startState(t, given).lines
  /\ blockMacros' = blockMacros \cup startState(t, given).blockMacros
  /\ formattedLinesBySource' = startState(t, given).map
  /\ lineIndex' = 0
  /\ outputLines' = <<>>
  /\ tokens' = <<>>
  /\ tokenIndex' = 0
  /\ outputForThisLine' = <<>>
  /\ renderIndent' = 0
  /\ pc' = "line"
  /\ formattedText' = ""
  /\ UNCHANGED <<indentLevel, seenFirstPassage, editedText, pass, firstText, quoteVars,
                 loaderVars>>

\* The host calls formatSugarCubeDocument again, for the document t and the
\* options given, after the last call returned: every local of the function
\* is created anew (formatter.ts:287-340, 113, 224, 345).
FormatAnother(t, given) ==
  /\ pc = "done" /\ Len(calls) + 1 < MaxCalls
  /\ calls' = Append(calls, returnedCall)
  /\ text' = startState(t, given).text
  /\ options' = startState(t, given).options
  /\ optionsArg' = <<given>>
  /\ lines' = startState(t, given).lines
  /\ blockMacros' = startState(t, given).blockMacros
  /\ formattedLinesBySource' = startState(t, given).map
  /\ lineIndex' = 0
  /\ indentLevel' = 0
  /\ seenFirstPassage' = FALSE
  /\ outputLines' = <<>>
  /\ tokens' = <<>>
  /\ tokenIndex' = 0
  /\ outputForThisLine' = <<>>
  /\ renderIndent' = 0
  /\ pc' = "line"
  /\ formattedText' = ""
  /\ UNCHANGED <<editedText, pass, firstText, quoteVars, loaderVars>>

(***************************************************************************)
(* The loop of formatMacroArguments, one match of quotePattern per step     *)
(***************************************************************************)
\* quotePattern.exec(macroContent) from lastIndex on (formatter.ts:63).
nextMatch == QuoteMatch(macroContent, lastIndex + 1)

unchangedEngine ==
  UNCHANGED <<text, lines, blockMacros, lineIndex, indentLevel, seenFirstPassage,
              outputLines, formattedLinesBySource, tokens, tokenIndex,
              outputForThisLine, renderIndent, formattedText, editedText, pass,
              firstText, calls, optionsArg, loaderVars>>

\* formatter.ts:63-69, 87-95, 100: a match whose quotes are removed.
StripQuotes ==
  /\ pc = "match" /\ nextMatch.found
  /\ stripsQuotes(macroContent, nextMatch, options)
  /\ result' = result \o Slice(macroContent, lastIndex, nextMatch.start - 1)
                      \o Unescape(nextMatch.content)
  /\ lastIndex' = nextMatch.end
  /\ match' = nextMatch
  /\ UNCHANGED <<macroContent, options, pc>>
  /\ unchangedEngine

\* formatter.ts:63-69, 96-100: a match that is quoted again.
Requote ==
  /\ pc = "match" /\ nextMatch.found
  /\ ~stripsQuotes(macroContent, nextMatch, options)
  /\ result' = result \o Slice(macroContent, lastIndex, nextMatch.start - 1)
                      \o formatQuotedString(nextMatch.quote, nextMatch.content,
                                            options.quoteStyle)
  /\ lastIndex' = nextMatch.end
  /\ match' = nextMatch
  /\ UNCHANGED <<macroContent, options, pc>>
  /\ unchangedEngine

\* formatter.ts:103-106
ReturnArguments ==
  /\ pc = "match" /\ ~nextMatch.found
  /\ result' = result \o SliceFrom(macroContent, lastIndex)
  /\ pc' = "formatted"
  /\ UNCHANGED <<macroContent, options, lastIndex, match>>
  /\ unchangedEngine

(***************************************************************************)
(* Macro-dictionary loader: parseTweeConfig, loadTweeConfig                 *)
(* (twee-config.ts, src/unnamed/part_000)                                   *)
(*                                                                          *)
(* yaml.load is the js-yaml library's.  It is modelled for documents in     *)
(* YAML's flow style without repeated keys, which are the JSON texts, and   *)
(* for the empty document, for which it returns undefined.                  *)
(***************************************************************************)
Undefined == [t |-> "undefined"]

yamlLoad(content) ==
  IF Trim(content) = "" THEN JsonOk(Undefined, Len(content) + 1) ELSE JsonParse(content)

\* Whether a value is truthy in JavaScript.
truthy(v) ==
  CASE v.t = "lit" -> v.s = "true"
    [] v.t = "num" -> v.s # "0"
    [] v.t = "str" -> v.s # ""
    [] v.t = "undefined" -> FALSE
    [] v.t \in {"arr", "obj"} -> TRUE

\* typeof v === "object"
isObjectType(v) == v.t \in {"arr", "obj"} \/ (v.t = "lit" /\ v.s = "null")

\* v[k] for a name k that is no index and no built-in property.
member(v, k) ==
  IF v.t = "obj" /\ KeyIndex(v.keys, k) # 0 THEN v.vals[KeyIndex(v.keys, k)] ELSE Undefined

\* The values v[key] for key of Object.keys(v), in that order.
valuesOf(v) ==
  CASE v.t = "obj" -> v.vals
    [] v.t = "arr" -> v.items
    [] v.t = "str" -> [j \in 1..Len(v.s) |-> [t |-> "str", s |-> CharAt(v.s, j)]]
    [] OTHER -> <<>>

\* list.includes(name)
includes(list, name) == \E j \in 1..Len(list) : list[j] = name

\* twee-config.ts:72-79 from the j-th child on.
RECURSIVE addChildren(_, _, _)
addChildren(customMidBlockMacros, children, j) ==
  IF j > Len(children) THEN customMidBlockMacros
  ELSE IF children[j].t = "str" /\ ~includes(customMidBlockMacros, children[j].s)
  THEN addChildren(Append(customMidBlockMacros, children[j].s), children, j + 1)
  ELSE addChildren(customMidBlockMacros, children, j + 1)

\* isContainerWithChildren without the container member.
anyMacroWithChildren(macroDef) == member(macroDef, "children").t = "arr"

\* twee-config.ts:71: a container macro with an array of children.
isContainerWithChildren(macroDef) ==
  truthy(member(macroDef, "container")) /\ member(macroDef, "children").t = "arr"

\* twee-config.ts:67-81 from the j-th macro definition on.
RECURSIVE addMacros(_, _, _)
addMacros(customMidBlockMacros, macroDefs, j) ==
  IF j > Len(macroDefs) THEN customMidBlockMacros
  ELSE IF isContainerWithChildren(macroDefs[j])
  THEN addMacros(addChildren(customMidBlockMacros, member(macroDefs[j], "children").items, 1),
                 macroDefs, j + 1)
  ELSE addMacros(customMidBlockMacros, macroDefs, j + 1)

\* twee-config.ts:60-82 from the j-th story format on.
RECURSIVE addFormats(_, _, _)
addFormats(customMidBlockMacros, formatConfigs, j) ==
  IF j > Len(formatConfigs) THEN customMidBlockMacros
  ELSE IF ~truthy(member(formatConfigs[j], "macros"))
  THEN addFormats(customMidBlockMacros, formatConfigs, j + 1)
  ELSE addFormats(addMacros(customMidBlockMacros,
                            valuesOf(member(formatConfigs[j], "macros")), 1),
                  formatConfigs, j + 1)

\* parseTweeConfig with a name returned where the parser throws.
parseTweeConfigOrElse(content, yaml) ==
  LET config == IF yaml THEN yamlLoad(content) ELSE JsonParse(content)
  IN  IF ~config.ok THEN <<"else">>
      ELSE IF ~truthy(config.val) \/ ~isObjectType(config.val) THEN <<>>
      ELSE addFormats(<<>>, valuesOf(config.val), 1)

\* parseTweeConfig(content, isYaml).customMidBlockMacros.  A parser that
\* throws is caught at twee-config.ts:83, before anything was pushed.
parseTweeConfig(content, yaml) ==
  LET config == IF yaml THEN yamlLoad(content) ELSE JsonParse(content)
  IN  IF ~config.ok THEN <<>>
      ELSE IF ~truthy(config.val) \/ ~isObjectType(config.val) THEN <<>>
      ELSE addFormats(<<>>, valuesOf(config.val), 1)

\* parseTweeConfigContent(content, format) (twee-config.ts:134-139).
ParseContent ==
  /\ pc = "parse"
  /\ parsed' = parseTweeConfig(configContent, isYaml)
  /\ pc' = "parsed"
  /\ UNCHANGED <<vars_formatter, configContent, isYaml, rootDir, fileIndex, loadResult>>

EndsWith(s, suffix) ==
  Len(s) >= Len(suffix) /\ SubSeq(s, Len(s) - Len(suffix) + 1, Len(s)) = suffix

isYamlFile(file) == EndsWith(file, ".twee-config.yml") \/ EndsWith(file, ".twee-config.yaml")

isJsonFile(file) == EndsWith(file, ".twee-config.json")

\* The file the loop of loadTweeConfig is at.
file == rootDir.files[fileIndex + 1]

\* result.customMidBlockMacros after the macros of one file were merged in
\* (twee-config.ts:117-121).
RECURSIVE mergeMacros(_, _, _)
mergeMacros(list, macros, j) ==
  IF j > Len(macros) THEN list
  ELSE IF includes(list, macros[j]) THEN mergeMacros(list, macros, j + 1)
  ELSE mergeMacros(Append(list, macros[j]), macros, j + 1)

\* fs.readdirSync(rootDir) (twee-config.ts:101); when it throws, the catch
\* at 123 is reached and the result returned.
ReadDirectory ==
  /\ pc = "readdir"
  /\ pc' = IF rootDir.readable THEN "file" ELSE "loaded"
  /\ UNCHANGED <<vars_formatter, configContent, isYaml, parsed, rootDir, fileIndex,
                 loadResult>>

\* twee-config.ts:108-110: a file that is no twee-config file.
SkipFile ==
  /\ pc = "file" /\ fileIndex < Len(rootDir.files)
  /\ ~isYamlFile(file.name) /\ ~isJsonFile(file.name)
  /\ fileIndex' = fileIndex + 1
  /\ UNCHANGED <<vars_formatter, configContent, isYaml, parsed, rootDir, loadResult, pc>>

\* twee-config.ts:112-121: a twee-config file is read, parsed and merged.
LoadFile ==
  /\ pc = "file" /\ fileIndex < Len(rootDir.files)
  /\ isYamlFile(file.name) \/ isJsonFile(file.name)
  /\ file.readable
  /\ configContent' = file.content
  /\ isYaml' = isYamlFile(file.name)
  /\ parsed' = parseTweeConfig(file.content, isYamlFile(file.name))
  /\ loadResult' = mergeMacros(loadResult,
                               parseTweeConfig(file.content, isYamlFile(file.name)), 1)
  /\ fileIndex' = fileIndex + 1
  /\ UNCHANGED <<vars_formatter, rootDir, pc>>

\* fs.readFileSync throws (twee-config.ts:113): the catch at 123 is reached
\* and the result, as it is, returned.
ReadFileFails ==
  /\ pc = "file" /\ fileIndex < Len(rootDir.files)
  /\ isYamlFile(file.name) \/ isJsonFile(file.name)
  /\ ~file.readable
  /\ pc' = "loaded"
  /\ UNCHANGED <<vars_formatter, configContent, isYaml, parsed, rootDir, fileIndex,
                 loadResult>>

\* twee-config.ts:128 after the last file.
ReturnLoaded ==
  /\ pc = "file" /\ fileIndex = Len(rootDir.files)
  /\ pc' = "loaded"
  /\ UNCHANGED <<vars_formatter, configContent, isYaml, parsed, rootDir, fileIndex,
                 loadResult>>

(***************************************************************************)
(* Documents and configurations of the model                                *)
(***************************************************************************)
\* The longest document of the passage-layout family, in lines.
MaxLines == 5

\* The longest document of the macro family, in lines.
MaxMacroLines == 3

LayoutLines == {"", "::P", "[1]", "x"}

MacroLines == {"<<if $a >= 1>>", "<</if>>", "<<else>>", "x <<goto 'P'>>", " ::Q"}

LayoutConfigs ==
  {[emptyLinesBeforePassages |-> e, formatJsonPassages |-> j] :
     e \in {"preserve", "0", "1", "2"}, j \in BOOLEAN}

MacroConfigs ==
  {[customMidBlockMacros |-> <<>>],
   [customMidBlockMacros |-> <<"goto">>]}

DocsOver(alphabet, maxLines) == UNION {[1..n -> alphabet] : n \in 1..maxLines}

Init ==
  \/ \E d \in DocsOver(LayoutLines, MaxLines), c \in LayoutConfigs :
       Start(Join(d, "\n"), c)
  \/ \E d \in DocsOver(MacroLines, MaxMacroLines), c \in MacroConfigs :
       Start(Join(d, "\n"), c)
  \/ \E d \in [1..2 -> MacroLines], eol \in {"\r\n", "\r"} :
       Start(Join(d, eol), defaultOptions)

Next ==
  \/ SkipLeadingBlank
  \/ PreserveBlank
  \/ PassageHeader
  \/ Tokenize
  \/ ClosingMacro
  \/ OpeningBlockMacro
  \/ MidBlockMacro
  \/ RegularMacro
  \/ TextContent
  \/ EndOfLine
  \/ Return
  \/ ProvideEdits

Spec == Init /\ [][Next]_vars

\* Documents formatted twice.
MaxIdemLines == 3

IdemLines == {"", "::P", "<<if $a>>x<<else>><</if>>", "<<goto '\"P\"'>>"}

IdemConfigs == {[stripSingleWordQuotes |-> b] : b \in BOOLEAN}

InitIdem ==
  \E d \in DocsOver(IdemLines, MaxIdemLines), c \in IdemConfigs : Start(Join(d, "\n"), c)

NextIdem == Next \/ Reformat

SpecIdem == InitIdem /\ [][NextIdem]_vars

\* Opening macro tags handed to formatMacroArguments: a prefix and one
\* quoted literal whose content is any string of at most MaxContentLen
\* characters of QuoteChars.
MaxContentLen == 2

QuoteChars == {"a", " ", "-", "/", "\\", "'", "\"", "$", "_"}

QuotePrefixes == {"", "$x to ", "into ", "into        ", "f(", "1, ", "'b' "}

Contents == UNION {[1..n -> QuoteChars] : n \in 0..MaxContentLen}

QuoteConfigs ==
  {[stripSingleWordQuotes |-> b, quoteStyle |-> q] :
     b \in BOOLEAN, q \in {"double", "single", "preserve"}}

InitQuote ==
  \E prefix \in QuotePrefixes, q \in {"'", "\""}, content \in Contents, c \in QuoteConfigs :
     /\ options = mergeOptions(defaultOptions, c)
     /\ optionsArg = <<c>>
     /\ loaderIdle
     /\ macroContent = "<<goto " \o prefix \o q \o Join(content, "") \o q \o ">>"
     /\ lastIndex = 0
     /\ result = ""
     /\ match = NoMatch
     /\ pc = "match"
     /\ text = ""
     /\ lines = <<"">>
     /\ blockMacros = {}
     /\ formattedLinesBySource = [j \in 0..0 |-> <<>>]
     /\ loopStart

NextQuote == StripQuotes \/ Requote \/ ReturnArguments

SpecQuote == InitQuote /\ [][NextQuote]_vars

\* One call of formatSugarCubeDocument run to its return: documents with
\* unmatched closing tags, unterminated macro tags and malformed structured
\* bodies, and the empty document.
MaxTermLines == 3

TermLines == {"", "::P", "<</if>>", "<<if $a>>x<<else>>", "<<if", "{a:", "[1]"}

TermConfigs == {[formatJsonPassages |-> j] : j \in BOOLEAN}

InitTerm ==
  \E d \in DocsOver(TermLines, MaxTermLines), c \in TermConfigs : Start(Join(d, "\n"), c)

NextTerm ==
  \/ SkipLeadingBlank
  \/ PreserveBlank
  \/ PassageHeader
  \/ Tokenize
  \/ ClosingMacro
  \/ OpeningBlockMacro
  \/ MidBlockMacro
  \/ RegularMacro
  \/ TextContent
  \/ EndOfLine
  \/ Return

\* The place the run has reached: the main loop's index and the token
\* loop's index.
position == <<pc, lineIndex, tokenIndex>>

\* The header branch seen from the loop: at a header line, the index moves
\* forward and the loop stays at its head (formatter.ts:361, 485-490).
HeaderAdvance ==
  /\ pc = "line" /\ lineIndex < lineCount
  /\ trimmedLine # "" /\ StartsWith(trimmedLine, "::")
  /\ lineIndex' \in (lineIndex + 1)..lineCount
  /\ pc' = "line"
  /\ tokenIndex' = tokenIndex

\* The call of tokenizeLine seen from the loop: at any other non-blank
\* line, the token loop starts (formatter.ts:494-496).
TokenizeAdvance ==
  /\ pc = "line" /\ lineIndex < lineCount
  /\ trimmedLine # "" /\ ~StartsWith(trimmedLine, "::")
  /\ pc' = "token"
  /\ tokenIndex' = 0
  /\ lineIndex' = lineIndex

\* The function is sequential code that nothing suspends: a step that can be
\* taken is taken.  For the two steps that call the serializer and the
\* tokenizer the condition is stated on the step's guard and its effect on
\* the position, which every PassageHeader and Tokenize step has.
FairnessTerm ==
  /\ WF_vars(\/ SkipLeadingBlank
             \/ PreserveBlank
             \/ ClosingMacro
             \/ OpeningBlockMacro
             \/ MidBlockMacro
             \/ RegularMacro
             \/ TextContent
             \/ EndOfLine
             \/ Return)
  /\ WF_position(HeaderAdvance)
  /\ WF_position(TokenizeAdvance)

SpecTerm == InitTerm /\ [][NextTerm]_vars /\ FairnessTerm

\* Several calls in a row, each for any of a few documents and
\* configurations.
PureTexts ==
  {"x <<goto 'P'>>",
   "<</if>>\n<<if $a>>\nx",
   "<<if $a>>\n<<else>>\n<</if>>",
   "::P\n\nx",
   "\n::P\n[1]"}

PureConfigs == {[indentationEnabled |-> b] : b \in BOOLEAN}

InitPure == \E t \in PureTexts, c \in PureConfigs : Start(t, c)

NextPure ==
  \/ NextTerm
  \/ \E t \in PureTexts, c \in PureConfigs : FormatAnother(t, c)

SpecPure == InitPure /\ [][NextPure]_vars

\* Calls that leave the options argument out or pass a part of the options,
\* each followed by calls for the same document with all options written
\* out.
MergeText ==
  "\n::P\n<<if $a>>\n<<goto 'P'>> <<set $x to 'a b'>>\n<<else>>\nx\n<</if>>\n::Q\n\n[1]"

MergeArgs ==
  {<<>>,
   << <<>> >>,
   <<[stripSingleWordQuotes |-> FALSE]>>,
   <<[quoteStyle |-> "single"]>>,
   <<[emptyLinesBeforePassages |-> "0"]>>,
   <<[indentationEnabled |-> FALSE]>>,
   <<[indentationStyle |-> "tabs"]>>,
   <<[indentationSize |-> 2]>>,
   <<[formatJsonPassages |-> FALSE]>>,
   <<[customMidBlockMacros |-> <<"goto">>]>>,
   <<[quoteStyle |-> "preserve", indentationSize |-> 2]>>}

\* The configuration of the documentation: strip quotes on, double quotes,
\* 2 blank lines before passages, indentation of 4 spaces, structured
\* passages on, no custom mid-block macros.
documentedDefaults ==
  [stripSingleWordQuotes |-> TRUE,
   quoteStyle |-> "double",
   emptyLinesBeforePassages |-> "2",
   indentationEnabled |-> TRUE,
   indentationStyle |-> "spaces",
   indentationSize |-> 4,
   formatJsonPassages |-> TRUE,
   customMidBlockMacros |-> <<>>]

\* The documented defaults with only the keys of the argument overridden.
fullOptionsFor(args) ==
  [k \in DOMAIN documentedDefaults |->
     IF args # <<>> /\ k \in DOMAIN args[1] THEN args[1][k] ELSE documentedDefaults[k]]

InitMerge == \E a \in MergeArgs : Call(MergeText, a)

NextMerge ==
  \/ NextTerm
  \/ FormatAnother(text, fullOptionsFor(optionsArg))

SpecMerge == InitMerge /\ [][NextMerge]_vars

\* The formatter has not been called.
formatterIdle ==
  /\ options = defaultOptions
  /\ optionsArg = <<>>
  /\ macroContent = ""
  /\ lastIndex = 0
  /\ result = ""
  /\ match = NoMatch
  /\ text = ""
  /\ lines = <<"">>
  /\ blockMacros = {}
  /\ formattedLinesBySource = [j \in 0..0 |-> <<>>]
  /\ loopStart

\* Macro dictionaries: a config is a list of story-format sections, a section
\* has no macros member, a null one, or a list of macro definitions, and a
\* macro definition is its container member (flag, "absent" for none) and
\* its children member (an array of items, a string, or none).
MaxConfigMacros == 2

FormatNames == <<"sugarcube-2", "harlowe-3">>

MacroNames == <<"if", "switch", "for", "widget">>

ChildLists == {<<"\"a\"">>, <<"\"b\"", "\"a\"">>, <<"\"a\"", "1", "\"a\"", "\"c\"">>}

MacroShapes ==
  {[flag |-> "true", kind |-> "array", items |-> l] : l \in ChildLists}
    \cup {[flag |-> f, kind |-> "array", items |-> <<"\"d\"">>] : f \in {"absent", "false", "0"}}
    \cup {[flag |-> "1", kind |-> "array", items |-> <<"\"e\"", "\"a\"">>],
          [flag |-> "true", kind |-> "string", items |-> <<"\"f\"">>],
          [flag |-> "true", kind |-> "absent", items |-> <<>>]}

FormatShapes ==
  {[section |-> s, macros |-> <<>>] : s \in {"absent", "null"}}
    \cup {[section |-> "object", macros |-> m] :
            m \in UNION {[1..n -> MacroShapes] : n \in 0..MaxConfigMacros}}

SecondFormatShapes ==
  {[section |-> "object", macros |-> <<m>>] :
     m \in {[flag |-> "true", kind |-> "array", items |-> <<"\"a\"", "1", "\"a\"", "\"c\"">>],
            [flag |-> "false", kind |-> "array", items |-> <<"\"d\"">>],
            [flag |-> "1", kind |-> "array", items |-> <<"\"e\"", "\"a\"">>]}}

ConfigShapes ==
  {<<f>> : f \in FormatShapes} \cup {<<f, g>> : f \in FormatShapes, g \in SecondFormatShapes}

renderMacro(m) ==
  "{" \o Join((IF m.flag = "absent" THEN <<>> ELSE <<"\"container\": " \o m.flag>>)
                \o (CASE m.kind = "absent" -> <<>>
                      [] m.kind = "string" -> <<"\"children\": " \o m.items[1]>>
                      [] m.kind = "array" ->
                           <<"\"children\": [" \o Join(m.items, ", ") \o "]">>),
              ", ")
      \o "}"

renderFormat(f) ==
  CASE f.section = "absent" -> "{}"
    [] f.section = "null" -> "{\"macros\": null}"
    [] f.section = "object" ->
         "{\"macros\": {"
           \o Join([j \in 1..Len(f.macros) |->
                      "\"" \o MacroNames[j] \o "\": " \o renderMacro(f.macros[j])], ", ")
           \o "}}"

renderConfig(c) ==
  "{" \o Join([j \in 1..Len(c) |-> "\"" \o FormatNames[j] \o "\": " \o renderFormat(c[j])],
              ", ")
      \o "}"

RenderedContents == {renderConfig(c) : c \in ConfigShapes}

\* Contents that are empty, no object, without a macros section, or no
\* JSON and no YAML.
DegenerateContents ==
  {"", " ", "5", "\"text\"", "null", "true", "{}",
   "{\"sugarcube-2\": {}}", "{\"sugarcube-2\": null}", "{\"sugarcube-2\": {\"macros\": null}}",
   "[", "{\"sugarcube-2\": {\"macros\": "}

InitParse ==
  \E c \in RenderedContents \cup DegenerateContents, y \in BOOLEAN :
     /\ formatterIdle
     /\ configContent = c
     /\ isYaml = y
     /\ parsed = <<>>
     /\ rootDir = [readable |-> TRUE, files |-> <<>>]
     /\ fileIndex = 0
     /\ loadResult = <<>>
     /\ pc = "parse"

NextParse == ParseContent

SpecParse == InitParse /\ [][NextParse]_vars

\* Project directories: up to MaxFiles files, each a macro dictionary in one
\* of the three file-name forms, readable or not, or a file of another name.
MaxFiles == 2

FileBaseNames == {"story.twee-config.json", "story.twee-config.yml", "story.twee-config.yaml"}

FileContents ==
  {"{\"sugarcube-2\": {\"macros\": {\"if\": {\"container\": true, \"children\": [\"a\", \"b\"]}}}}",
   "{\"sugarcube-2\": {\"macros\": {\"for\": {\"container\": true, \"children\": [\"b\", \"c\"]}}}}",
   "["}

FilePrefixes == <<"1-", "2-", "3-", "4-">>

DirectoryFiles ==
  {[name |-> n, content |-> c, readable |-> r] :
     n \in FileBaseNames, c \in FileContents, r \in BOOLEAN}
    \cup {[name |-> "notes.txt", content |-> "", readable |-> TRUE]}

Directories ==
  {[readable |-> FALSE, files |-> <<>>]}
    \cup {[readable |-> TRUE,
           files |-> [j \in 1..Len(fs) |-> [fs[j] EXCEPT !.name = FilePrefixes[j] \o @]]] :
            fs \in UNION {[1..n -> DirectoryFiles] : n \in 0..MaxFiles}}

InitLoader ==
  \E d \in Directories :
     /\ formatterIdle
     /\ configContent = ""
     /\ isYaml = FALSE
     /\ parsed = <<>>
     /\ rootDir = d
     /\ fileIndex = 0
     /\ loadResult = <<>>
     /\ pc = "readdir"

NextLoader == ReadDirectory \/ SkipFile \/ LoadFile \/ ReadFileFails \/ ReturnLoaded

SpecLoader == InitLoader /\ [][NextLoader]_vars

\* Passages of nested blocks: a body is a list of tags and texts, "if" and
\* "for" being opening tags, "close" the closing tag of the innermost open
\* one, "set" a macro that is never closed, "else" a mid-block macro and "x" a
\* text; every opening tag is closed, in order.
MaxTags == 4

TagSymbols == {"if", "for", "close", "set", "else", "x"}

\* The opening tags that are open after the j-th symbol and those after it,
\* innermost last; <<"?">> when a "close" has nothing to close.
RECURSIVE openAfter(_, _, _)
openAfter(body, j, open) ==
  IF j > Len(body) THEN open
  ELSE IF body[j] \in {"if", "for"} THEN openAfter(body, j + 1, Append(open, body[j]))
  ELSE IF body[j] # "close" THEN openAfter(body, j + 1, open)
  ELSE IF open = <<>> THEN <<"?">>
  ELSE openAfter(body, j + 1, SubSeq(open, 1, Len(open) - 1))

NestedBodies ==
  {body \in UNION {[1..n -> TagSymbols] : n \in 1..MaxTags} :
     /\ openAfter(body, 1, <<>>) = <<>>
     /\ \A j \in 1..(Len(body) - 1) : ~(body[j] = "x" /\ body[j + 1] = "x")}

\* The text of the j-th symbol of a body.
tagText(body, j) ==
  CASE body[j] = "if" -> "<<if $a>>"
    [] body[j] = "for" -> "<<for _i range 3>>"
    [] body[j] = "set" -> "<<set $a to 1>>"
    [] body[j] = "else" -> "<<else>>"
    [] body[j] = "x" -> "x"
    [] body[j] = "close" ->
         LET open == openAfter(SubSeq(body, 1, j - 1), 1, <<>>)
         IN  "<</" \o open[Len(open)] \o ">>"

NestLayouts == {"lines", "joined", "inner"}

\* The source lines of a body: one tag a line; all on one line, after a
\* leading blank line; or one tag a line, indented, inside an "if" that is
\* left open, after a blank line.
nestLines(body, layout) ==
  LET tags == [j \in 1..Len(body) |-> tagText(body, j)]
  IN  CASE layout = "lines" -> <<"::P">> \o tags
        [] layout = "joined" -> <<"", "::P", Join(tags, "")>>
        [] layout = "inner" ->
             <<"::P", "<<if $a>>", "">> \o [j \in 1..Len(tags) |-> "  " \o tags[j]]

NestConfigs == {[indentationSize |-> 2], [indentationStyle |-> "tabs"]}

InitNest ==
  \E body \in NestedBodies, layout \in NestLayouts, c \in NestConfigs :
     Start(Join(nestLines(body, layout), "\n"), c)

SpecNest == InitNest /\ [][NextTerm]_vars

\* Passages after blocks that were left open: headers with surrounding
\* blanks and with a macro tag and quotes in them, after opening tags with
\* and without their closing tags, and before structured bodies.
MaxHeaderLines == 3

HeaderLines ==
  {"", " :: P <<goto \"Q\">> ", "::Q", "<<if $a>><<else>>x", "<</if>>", "[1]"}

HeaderConfigs ==
  {[emptyLinesBeforePassages |-> e, formatJsonPassages |-> j] :
     e \in {"preserve", "1"}, j \in BOOLEAN}

InitHeader ==
  \E d \in DocsOver(HeaderLines, MaxHeaderLines), c \in HeaderConfigs : Start(Join(d, "\n"), c)

SpecHeader == InitHeader /\ [][NextTerm]_vars

\* Opening tags and their closing tags apart: the closing tag on an earlier
\* or a later line, in a header, in another passage, in a structured body, or
\* nowhere.
MaxClassifyLines == 3

ClassifyLines ==
  {"", "::Q <</for>>", "<<if $a>>x", "<</if>>", "[\"<</if>>\"]", "<<for _i range 3>><<else>>",
   "<<if $b>><<else>>"}

ClassifyConfigs == {[formatJsonPassages |-> j] : j \in BOOLEAN}

InitClassify ==
  \E d \in DocsOver(ClassifyLines, MaxClassifyLines), c \in ClassifyConfigs :
     Start(Join(d, "\n"), c)

SpecClassify == InitClassify /\ [][NextTerm]_vars

\* Texts of tag fragments: closing tags put together from their parts, a
\* closing tag with a blank before >>, and an opening tag; and a document
\* with a header, a blank line and a mid-block macro.
MaxPieces == 4

TagPieces == {"<</if >>", "<<if>>", "<</", "f", ">>", "\n"}

PieceTexts ==
  {Join(p, "") : p \in UNION {[1..n -> TagPieces] : n \in 1..MaxPieces}}
    \cup {"::P\n\n<<if $a>><<else>><</if>>"}

InitDetect == \E t \in PieceTexts : Call(t, <<>>)

SpecDetect == InitDetect /\ [][NextTerm]_vars

\* Documents formatted with formatJsonPassages on and then off: passages
\* whose bodies are malformed structured values, structured values (on one
\* line and over two), and macro lines.
MaxFallbackLines == 3

FallbackLines == {"", "::P", "[1,", "{a:", "[1]", "<<if $a>><<else>>x", "<</if>>"}

InitFallback ==
  \E d \in DocsOver(FallbackLines, MaxFallbackLines) :
     Start(Join(d, "\n"), [formatJsonPassages |-> TRUE])

NextFallback ==
  \/ NextTerm
  \/ FormatAnother(text, [formatJsonPassages |-> ~options.formatJsonPassages])

SpecFallback == InitFallback /\ [][NextFallback]_vars

\* Documents in which a built-in mid-block name, option, is opened inside and
\* outside an if block, with and without a closing tag of its own.
MaxPrecLines == 4

PrecLines == {"", "::P", "<<if $a>>", "<</if>>", "<<option>>x", "<</option>>"}

InitPrec == \E d \in DocsOver(PrecLines, MaxPrecLines) : Call(Join(d, "\n"), <<>>)

SpecPrec == InitPrec /\ [][NextTerm]_vars

\* Structured passages under each indentation unit: a tab, two spaces, four
\* spaces, and none.
MaxUnitLines == 3

UnitLines == {"", "::P", "[1]", "{a: [1]}", "<<if $a>><<else>>x", "<</if>>"}

UnitConfigs ==
  {[indentationStyle |-> "tabs"], [indentationSize |-> 2], [indentationSize |-> 4],
   [indentationEnabled |-> FALSE]}

InitUnit ==
  \E d \in DocsOver(UnitLines, MaxUnitLines), c \in UnitConfigs : Start(Join(d, "\n"), c)

SpecUnit == InitUnit /\ [][NextTerm]_vars

\* Documents that start with blank lines, empty or of blanks only, before
\* and without passage headers.
MaxBlankLines == 3

BlankLines == {"", " \t", "::P", "x", "<<if $a>><<else>>", "<</if>>"}

BlankConfigs == {[emptyLinesBeforePassages |-> e] : e \in {"preserve", "0", "2"}}

InitBlank ==
  \E d \in DocsOver(BlankLines, MaxBlankLines), c \in BlankConfigs : Start(Join(d, "\n"), c)

SpecBlank == InitBlank /\ [][NextTerm]_vars

\* Lines put together from tags and texts: opening tags with a > in them, a
\* closing tag, a word, a blank and a >; and a document with a header, a
\* blank line and a mid-block macro.
MaxParts == 4

OpeningParts == {"<<if $a >= 1>>", "<<set $a>1>>"}

ClosingParts == {"<</if>>"}

TextParts == {"text", " ", ">"}

LineParts == OpeningParts \cup ClosingParts \cup TextParts

PartLists == UNION {[1..n -> LineParts] : n \in 1..MaxParts}

InitParts ==
  \E t \in {Join(p, "") : p \in PartLists} \cup {"::P\n\n<<if $a>><<else>><</if>>"} :
     Call(t, <<>>)

SpecParts == InitParts /\ [][NextTerm]_vars

(***************************************************************************)
(* Properties                                                               *)
(***************************************************************************)
returned == pc \in {"done", "edited"}

\* The strings of the line map's entries, in ascending source line order.
RECURSIVE entriesFrom(_, _)
entriesFrom(map, j) ==
  IF j \notin DOMAIN map THEN <<>> ELSE map[j] \o entriesFrom(map, j + 1)

\* C1: joining the entries of the returned line map in ascending source
\* line order, with line breaks, yields exactly formattedText.
C1_LineMapJoinsToFormattedText ==
  returned => Join(entriesFrom(formattedLinesBySource, 0), "\n") = formattedText

\* The number of lines of the document after line-ending normalization.
sourceLineCount ==
  LET normalized == NormalizeLineEndings(text)
  IN  Cardinality({i \in 1..Len(normalized) : CharAt(normalized, i) = "\n"}) + 1

\* C2: at every point of the run the line map has exactly the keys
\* 0 .. n - 1, n being the number of lines of the normalized document.
C2_LineMapKeys ==
  DOMAIN formattedLinesBySource = 0..(sourceLineCount - 1)

\* A body of four lines was reflowed into three: the fourth line's output
\* was dropped, and the run has returned.
C2_Witness ==
  /\ pc = "done"
  /\ lines = <<"::P", "[1]", "", "", "">>
  /\ options.formatJsonPassages
  /\ formattedLinesBySource[1] = <<"[">>
  /\ formattedLinesBySource[4] = <<>>

\* C3: formatting the result of a run again, with the same configuration,
\* returns the same text.
C3_Idempotent ==
  (pc = "done" /\ pass = 2) => formattedText = firstText

\* C4: indentLevel is never negative, and neither is the indent a token is
\* rendered at (indentLevel - 1 for a mid-block token).
C4_IndentNonNegative ==
  indentLevel >= 0 /\ renderIndent >= 0

\* An unmatched closing tag came first and left the level at 0; later an
\* <<else>> inside a block was rendered one level above the block's body.
C4_Witness ==
  /\ pc = "token" /\ tokenIndex > 0
  /\ outputLines[1] = "<</if>>"
  /\ tokens[tokenIndex].macroName = "else"
  /\ indentLevel = 1
  /\ renderIndent = 0

\* The index of the last non-empty string of out, or 0.
lastNonEmpty(out) ==
  IF \E p \in 1..Len(out) : out[p] # ""
  THEN CHOOSE p \in 1..Len(out) : out[p] # "" /\ \A q \in (p + 1)..Len(out) : out[q] = ""
  ELSE 0

\* The engine is about to process a passage header that is not the first.
atLaterHeader ==
  /\ pc = "line" /\ lineIndex < lineCount
  /\ StartsWith(Trim(lines[lineIndex + 1]), "::")
  /\ seenFirstPassage

\* C5: with emptyLinesBeforePassages = N in {0, 1, 2}, a passage header that
\* is not the first is emitted right after exactly N empty lines that
\* follow the last non-empty output line; no later step changes the output
\* up to its last non-empty line; and the returned text is the output lines
\* joined.  So in formattedText the header is preceded by exactly N empty
\* lines and a non-empty line before them.
C5_BlankLinesBeforeHeader ==
  [][/\ (atLaterHeader /\ options.emptyLinesBeforePassages \in {"0", "1", "2"}) =>
          LET N == CASE options.emptyLinesBeforePassages = "0" -> 0
                     [] options.emptyLinesBeforePassages = "1" -> 1
                     [] options.emptyLinesBeforePassages = "2" -> 2
              k == lastNonEmpty(outputLines)
          IN  /\ k > 0
              /\ Len(outputLines') >= k + N + 1
              /\ \A p \in (k + 1)..(k + N) : outputLines'[p] = ""
              /\ outputLines'[k + N + 1] = Trim(lines[lineIndex + 1])
     /\ \A p \in 1..lastNonEmpty(outputLines) :
          Len(outputLines') >= p /\ outputLines'[p] = outputLines[p]
     /\ (pc' = "done" /\ outputLines' # <<>>) => SplitLines(formattedText') = outputLines'
    ]_vars

\* With N = 1, one header followed another directly (a blank line was added)
\* and a third came after two blank lines (one was removed).
C5_Witness ==
  /\ pc = "done"
  /\ options.emptyLinesBeforePassages = "1"
  /\ lines = <<"::P", "::P", "", "", "::P">>
  /\ formattedText = "::P\n\n::P\n\n::P"

\* The indices of the passage header lines of ls, and the number of blank
\* lines of ls immediately before index p.
headerIndices(ls) == {p \in 1..Len(ls) : StartsWith(Trim(ls[p]), "::")}

blankRunBefore(ls, p) ==
  Cardinality({q \in 1..(p - 1) : \A r \in q..(p - 1) : Trim(ls[r]) = ""})

\* C6: with emptyLinesBeforePassages = "preserve", each passage header after
\* the first is preceded in formattedText by as many blank lines as in the
\* source.
C6_PreserveKeepsBlankRuns ==
  (pc = "done" /\ options.emptyLinesBeforePassages = "preserve") =>
     /\ Cardinality(headerIndices(outputLines)) = Cardinality(headerIndices(lines))
     /\ \A k \in 2..Cardinality(headerIndices(lines)) :
          blankRunBefore(outputLines, Nth(headerIndices(outputLines), k))
            = blankRunBefore(lines, Nth(headerIndices(lines), k))

\* C7: the document after the editor's edits is the formatted text (up to
\* the style of the line breaks the document already had).
C7_EditsYieldFormattedText ==
  pc = "edited" => NormalizeLineEndings(editedText) = formattedText

\* C8: an opening tag whose name is a mid-block name (built in or
\* configured) and no block macro is rendered at indentLevel - 1, or at 0
\* when indentLevel is 0, and leaves indentLevel unchanged.
C8_MidBlockRendering ==
  [][(/\ pc = "token" /\ tokenIndex < Len(tokens)
      /\ tokens[tokenIndex + 1].type = "opening-macro"
      /\ tokens[tokenIndex + 1].macroName
           \in {"else", "elseif", "case", "default", "stop", "next", "option",
                "optionsfrom", "track"}
                 \cup {options.customMidBlockMacros[j] :
                         j \in 1..Len(options.customMidBlockMacros)}
      /\ tokens[tokenIndex + 1].macroName \notin detectBlockMacros(NormalizeLineEndings(text)))
     => /\ indentLevel' = indentLevel
        /\ outputLines' =
             Append(outputLines,
                    Repeat(indentStr, IF indentLevel > 0 THEN indentLevel - 1 ELSE 0)
                      \o tokens[tokenIndex + 1].value)
    ]_vars

\* A configured mid-block macro (goto) inside an open block was rendered at
\* the block's own level, the text before it one level deeper.
C8_Witness ==
  /\ pc = "token" /\ tokenIndex = 2
  /\ options.customMidBlockMacros = <<"goto">>
  /\ tokens[2].macroName = "goto"
  /\ indentLevel = 1
  /\ outputLines = <<"<<if $a >= 1>>", "    x", "<<goto P>>">>

\* The up-to-10 characters before the opening quote of the next literal.
windowBefore ==
  Slice(macroContent,
        IF nextMatch.start - 1 > 10 THEN nextMatch.start - 1 - 10 ELSE 0,
        nextMatch.start - 1)

\* s without the whitespace at its end.
withoutTrailingSpace(s) ==
  IF \E n \in 1..Len(s) : CharAt(s, n) \notin SpaceChars
  THEN SubSeq(s, 1, CHOOSE n \in 1..Len(s) :
                      /\ CharAt(s, n) \notin SpaceChars
                      /\ \A m \in (n + 1)..Len(s) : CharAt(s, m) \in SpaceChars)
  ELSE ""

\* The condition of C9 on the next literal.
C9_Condition ==
  LET content == Unescape(nextMatch.content)
      before == withoutTrailingSpace(windowBefore)
      n == Len(before)
  IN  /\ Len(content) > 0
      /\ \A i \in 1..Len(content) :
           CharAt(content, i) \notin SpaceChars \cup {"-", "/", "\\"}
      /\ CharAt(content, 1) \notin {"$", "_"}
      /\ ~(/\ n >= 2
           /\ SubSeq(before, n - 1, n) = "to"
           /\ (n = 2 \/ CharAt(before, n - 2) \notin WordChars))
      /\ ~(n >= 1 /\ CharAt(before, n) \in {"(", ","})

\* The text the next step puts in place of the next literal.
emitted == SliceFrom(result', Len(result) + (nextMatch.start - 1 - lastIndex))

\* C9: with stripSingleWordQuotes a literal is emitted as its unescaped
\* content, without quotes, exactly if the condition holds; without
\* stripSingleWordQuotes it is never emitted so.
C9_StripRule ==
  [][(pc = "match" /\ nextMatch.found) =>
        ((emitted = Unescape(nextMatch.content))
           <=> (options.stripSingleWordQuotes /\ C9_Condition))
    ]_vars

\* <<goto into 'a'>>: the literal after "into " lost its quotes.
C9_Witness ==
  /\ macroContent = "<<goto into 'a'>>"
  /\ options.stripSingleWordQuotes
  /\ match.found /\ match.content = "a"
  /\ result = "<<goto into a"

\* C10: a literal that is not stripped is emitted between two copies of the
\* character quoteStyle chooses: " for double, ' for single, the literal's
\* own delimiter for preserve.
C10_QuoteStyle ==
  [][(pc = "match" /\ nextMatch.found /\ emitted # Unescape(nextMatch.content)) =>
        LET d == CASE options.quoteStyle = "double" -> "\""
                   [] options.quoteStyle = "single" -> "'"
                   [] options.quoteStyle = "preserve" -> nextMatch.quote
        IN  /\ Len(emitted) >= 2
            /\ CharAt(emitted, 1) = d
            /\ CharAt(emitted, Len(emitted)) = d
    ]_vars

\* A single-quoted literal kept its delimiter under "preserve" with
\* stripSingleWordQuotes off.
C10_Witness ==
  /\ macroContent = "<<goto $x to 'aa'>>"
  /\ options.quoteStyle = "preserve" /\ ~options.stripSingleWordQuotes
  /\ match.found /\ match.quote = "'"
  /\ result = "<<goto $x to 'aa'"

\* The zero-based index of the first passage header after source line i, or
\* the number of lines.
nextHeaderAfter(i) ==
  IF \E h \in (i + 1)..(lineCount - 1) : StartsWith(Trim(lines[h + 1]), "::")
  THEN CHOOSE h \in (i + 1)..(lineCount - 1) :
         /\ StartsWith(Trim(lines[h + 1]), "::")
         /\ \A g \in (i + 1)..(h - 1) : ~StartsWith(Trim(lines[g + 1]), "::")
  ELSE lineCount

\* The serialized form of the body of the passage whose header is source
\* line i: [ok, text].
serializedBody(i) ==
  formatStructured(Join(SubSeq(lines, i + 2, nextHeaderAfter(i)), "\n"), indentStr)

\* The engine is at a passage header whose body is reflowed.
atReflowedHeader ==
  /\ pc = "line" /\ lineIndex < lineCount
  /\ StartsWith(Trim(lines[lineIndex + 1]), "::")
  /\ options.formatJsonPassages
  /\ serializedBody(lineIndex).ok

\* C11: when a passage body of n lines is reflowed into m serialized lines,
\* the body line at offset k maps to exactly the k-th serialized line if
\* k < m and to the empty list otherwise, except that for m > n the entry of
\* the last body line also holds the serialized lines n .. m - 1 in order;
\* and the engine resumes at the next passage header (or the end) without
\* tokenizing a body line.
C11_ReflowMapping ==
  [][atReflowedHeader =>
       LET json == SplitLines(serializedBody(lineIndex).text)
           m == Len(json)
           first == lineIndex + 1
           n == nextHeaderAfter(lineIndex) - first
       IN  /\ n > 0
           /\ \A k \in 0..(n - 1) :
                formattedLinesBySource'[first + k] =
                  IF k = n - 1 /\ m > n THEN SubSeq(json, n, m)
                  ELSE IF k < m THEN <<json[k + 1]>>
                  ELSE <<>>
           /\ lineIndex' = nextHeaderAfter(lineIndex)
           /\ pc' = "line"
           /\ tokens' = tokens /\ tokenIndex' = tokenIndex
    ]_vars

\* A one-line body was reflowed into three lines, all in the entry of that
\* line, and the engine stands at the next header.
C11_Witness ==
  /\ pc = "line" /\ lineIndex = 2
  /\ lines = <<"::P", "[1]", "::P">>
  /\ formattedLinesBySource[1] = <<"[", "    1", "]">>
  /\ outputLines = <<"::P", "[", "    1", "]">>

\* C12: every run returns (pc = "done" is reached, with the text and the
\* line map), and the main loop's index never decreases, stays within the
\* document and is strictly larger each time the loop comes back to its
\* head, also after the jump past a reflowed passage.
C12_Terminates ==
  /\ <>(pc = "done")
  /\ [][/\ lineIndex' >= lineIndex
        /\ lineIndex' <= lineCount
        /\ (pc' = "line" => lineIndex' > lineIndex)
        /\ (pc' = "done" =>
              /\ formattedText' = Join(outputLines, "\n")
              /\ DOMAIN formattedLinesBySource' = 0..(lineCount - 1))
    ]_vars

\* A run returned for a document with an unmatched closing tag, an
\* unterminated macro tag and a malformed structured body.
C12_Witness ==
  /\ pc = "done"
  /\ lines = <<"<</if>>", "<<if", "{a:">>
  /\ formattedText = "<</if>>\n<<if\n{a:"

\* C13: a call returns the same formattedText and line map as every earlier
\* call with the same text and configuration, whatever was formatted before
\* or in between.
C13_PureFunction ==
  pc = "done" =>
    \A k \in 1..Len(calls) :
      (calls[k].text = text /\ calls[k].options = options) =>
        /\ calls[k].formattedText = formattedText
        /\ calls[k].formattedLinesBySource = formattedLinesBySource

\* The third call formatted the document of the first again, after a call
\* that returned with an open block and a passage seen.
C13_Witness ==
  /\ pc = "done" /\ Len(calls) = 2
  /\ calls[1].text = text /\ calls[1].options = options
  /\ calls[2].text = "<</if>>\n<<if $a>>\nx"
  /\ text = "::P\n\nx"
  /\ formattedText = "::P\n\nx"

\* C14: a call with part of the options, with the empty object or without
\* the argument runs with the documented defaults in which only the supplied
\* keys are overridden, and returns what a call with that full configuration
\* returns.
C14_PartialOptions ==
  /\ options = fullOptionsFor(optionsArg)
  /\ pc = "done" =>
       \A k \in 1..Len(calls) :
         (calls[k].text = text
            /\ fullOptionsFor(calls[k].optionsArg) = fullOptionsFor(optionsArg)) =>
           /\ calls[k].formattedText = formattedText
           /\ calls[k].formattedLinesBySource = formattedLinesBySource

\* A call with only indentationSize = 2 returned, then a call with the full
\* configuration returned the same text, indented by 2 spaces, the goto
\* literal stripped as by default.
C14_Witness ==
  /\ pc = "done" /\ Len(calls) = 1
  /\ calls[1].optionsArg = <<[indentationSize |-> 2]>>
  /\ DOMAIN optionsArg[1] = DOMAIN documentedDefaults
  /\ formattedText = calls[1].formattedText
  /\ outputLines[3] = "  <<goto P>>"

\* The flags that are truthy values.
TruthyFlags == {"true", "1"}

\* A sequence without the repetitions of its elements.
firstOccurrences(s) ==
  LET keep == {j \in 1..Len(s) : \A i \in 1..(j - 1) : s[i] # s[j]}
  IN  [k \in 1..Cardinality(keep) |->
         s[CHOOSE j \in keep : Cardinality({i \in keep : i <= j}) = k]]

RECURSIVE Concat(_)
Concat(ss) == IF ss = <<>> THEN <<>> ELSE Head(ss) \o Concat(Tail(ss))

\* The string children of a macro definition that is a container.
childNames(m) ==
  IF m.flag \in TruthyFlags /\ m.kind = "array"
  THEN LET strings == SelectSeq(m.items, LAMBDA x : CharAt(x, 1) = "\"")
       IN  [j \in 1..Len(strings) |-> SubSeq(strings[j], 2, Len(strings[j]) - 1)]
  ELSE <<>>

expectedMidBlockMacros(c) ==
  firstOccurrences(Concat([j \in 1..Len(c) |->
                             Concat([k \in 1..Len(c[j].macros) |-> childNames(c[j].macros[k])])]))

ExpectedResults == {<<renderConfig(c), expectedMidBlockMacros(c)>> : c \in ConfigShapes}

\* C15: parseTweeConfigContent returns the string children of the macro
\* definitions with a truthy container member and an array of children, over
\* all story-format sections, each name once, in the order of its first
\* occurrence; children of a macro that is no container are not returned.
C15_ContainerChildren ==
  (pc = "parsed" /\ configContent \in RenderedContents)
    => <<configContent, parsed>> \in ExpectedResults

\* Two sections: a name is repeated within a macro and across sections, a
\* child is no string, and a macro with children is no container.
C15_Witness ==
  /\ pc = "parsed"
  /\ configContent =
       renderConfig(<<[section |-> "object",
                       macros |-> <<[flag |-> "true", kind |-> "array",
                                     items |-> <<"\"b\"", "\"a\"">>],
                                    [flag |-> "false", kind |-> "array",
                                     items |-> <<"\"d\"">>]>>],
                      [section |-> "object",
                       macros |-> <<[flag |-> "true", kind |-> "array",
                                     items |-> <<"\"a\"", "1", "\"a\"", "\"c\"">>]>>]>>)
  /\ parsed = <<"b", "a", "c">>

\* C16: parseTweeConfigContent returns, and returns the empty list, for a
\* content that is empty, is no object, has no macros section, or is neither
\* JSON nor YAML.
C16_DegenerateContentIsEmpty ==
  [][(pc = "parse" /\ configContent \in DegenerateContents)
       => (pc' = "parsed" /\ parsed' = <<>>)]_vars

C16_Witness ==
  /\ pc = "parsed"
  /\ configContent = "{\"sugarcube-2\": {\"macros\": "
  /\ isYaml
  /\ parsed = <<>>

\* loadTweeConfig has returned after fs.readdirSync or fs.readFileSync threw.
returnedAfterFailure ==
  /\ pc = "loaded"
  /\ ~rootDir.readable \/ fileIndex < Len(rootDir.files)

\* C17: when reading the directory or one of its config files fails,
\* loadTweeConfig returns the empty list, whatever was read before.
C17_FailureYieldsEmpty == returnedAfterFailure => loadResult = <<>>

\* The number of blocks open around the body of a layout.
baseLevel(body, layout) ==
  IF layout = "inner" /\ \E j \in 1..Len(body) : body[j] = "if" THEN 1 ELSE 0

\* The number of blocks open after the j-th symbol of a body.
depthAfter(body, layout, j) ==
  baseLevel(body, layout) + Len(openAfter(SubSeq(body, 1, j), 1, <<>>))

\* The level the j-th symbol is rendered at: an opening tag at the level
\* before it, a closing tag at the level of its opening tag, a mid-block
\* macro a level less than a text, and a text or a macro that is not closed
\* a level more than the innermost opening tag.
levelOf(body, layout, j) ==
  LET before == depthAfter(body, layout, j - 1)
  IN  CASE body[j] \in {"if", "for", "set", "x"} -> before
        [] body[j] = "close" -> before - 1
        [] body[j] = "else" -> IF before > 0 THEN before - 1 ELSE before

\* The output lines of a layout of a body, each with the level after it.
nestOutput(body, layout, c) ==
  LET unit == indentStrOf(mergeOptions(defaultOptions, c))
      rendered == [j \in 1..Len(body) |->
                     [line |-> Repeat(unit, levelOf(body, layout, j)) \o tagText(body, j),
                      after |-> depthAfter(body, layout, j)]]
      base == baseLevel(body, layout)
  IN  IF layout = "inner"
      THEN <<[line |-> "::P", after |-> 0], [line |-> "<<if $a>>", after |-> base],
             [line |-> "", after |-> base]>> \o rendered
      ELSE <<[line |-> "::P", after |-> 0]>> \o rendered

\* The first k output lines of a run, all of them if there are fewer, and
\* the level after them.
nestPrefix(body, layout, c, k) ==
  LET out == nestOutput(body, layout, c)
      n == IF k < Len(out) THEN k ELSE Len(out)
  IN  <<c, Join(nestLines(body, layout), "\n"), [j \in 1..n |-> out[j].line],
        IF n = 0 THEN 0 ELSE out[n].after>>

NestPrefixes ==
  {nestPrefix(body, layout, c, k) :
     body \in NestedBodies, layout \in NestLayouts, c \in NestConfigs, k \in 0..(MaxTags + 3)}

\* C18: in a passage whose opening and closing tags are nested, a closing
\* tag is rendered at the level of its opening tag, a text or a macro that
\* is not closed a level deeper than the innermost open block, and
\* indentLevel is after a closing tag what it was before its opening tag:
\* the lines put out so far and indentLevel are those of the nesting.
C18_NestedBlocks == <<optionsArg[1], text, outputLines, indentLevel>> \in NestPrefixes

C18_Witness ==
  /\ pc = "done"
  /\ outputLines = <<"::P", "<<if $a>>", "", "  <<if $a>>", "    x", "  <</if>>">>
  /\ indentLevel = 1

\* The engine is about to process a passage header.
atHeader ==
  /\ pc = "line" /\ lineIndex < lineCount
  /\ StartsWith(Trim(lines[lineIndex + 1]), "::")

\* C19: a source line whose trimmed text starts with "::" is put out as one
\* line, its trimmed text, after the output so far and blank lines only,
\* whatever indentLevel is; it is not tokenized; indentLevel is 0 after it;
\* and the first token after a header is rendered at level 0.
C19_HeaderLine ==
  [][/\ atHeader =>
          LET header == Trim(lines[lineIndex + 1])
              k == lastNonEmpty(outputLines)
          IN  /\ \E p \in (k + 1)..Len(outputLines') :
                   /\ outputLines'[p] = header
                   /\ \A q \in (k + 1)..(p - 1) : outputLines'[q] = ""
                   /\ \A q \in (p + 1)..Len(outputLines') : ~StartsWith(outputLines'[q], "::")
              /\ \A q \in 1..k : outputLines'[q] = outputLines[q]
              /\ tokens' = tokens /\ pc' = "line"
              /\ indentLevel' = 0
     /\ (inTokenLoop /\ tokenIndex = 0 /\ lineIndex > 0 /\ isPassageHeader(lines[lineIndex]))
          => renderIndent' = 0
    ]_vars

\* A header with a macro tag and quotes in it came after a block that was
\* left open, and the line after it was rendered at level 0.
C19_Witness ==
  /\ pc = "done"
  /\ lines = <<"<<if $a>><<else>>x", " :: P <<goto \"Q\">> ", "<</if>>">>
  /\ options.emptyLinesBeforePassages = "preserve"
  /\ outputLines = <<"<<if $a>>", "<<else>>", "    x", ":: P <<goto \"Q\">>", "<</if>>">>

\* Whether the closing tag of a name is somewhere in a text.
hasClosingTag(t, name) ==
  \E i \in 1..(Len(t) - Len(name) - 4) :
     SubSeq(t, i, i + Len(name) + 4) = "<</" \o name \o ">>"

\* C20: the block macros are those of the whole document from the first
\* line on: an opening tag increases indentLevel by one if the closing tag of
\* its name is anywhere in the document, and leaves it as it is otherwise,
\* whatever was processed before; and the set of block macros never changes.
C20_WholeDocumentMembership ==
  [][/\ (inTokenLoop /\ token.type = "opening-macro") =>
          indentLevel' = IF hasClosingTag(text, token.macroName)
                         THEN indentLevel + 1
                         ELSE indentLevel
     /\ blockMacros' = blockMacros
    ]_vars

\* An opening tag has increased indentLevel; the closing tag of its name is
\* in the structured body of a later passage only.
C20_Witness ==
  /\ pc = "token" /\ tokenIndex = 1 /\ lineIndex = 0
  /\ lines = <<"<<if $a>>x", "::Q <</for>>", "[\"<</if>>\"]">>
  /\ options.formatJsonPassages
  /\ indentLevel = 1

\* The names n, runs of word characters, with <</n>> somewhere in a text.
closingTagNames(t) ==
  {n \in {SubSeq(t, i, j) : i \in 1..Len(t), j \in 1..Len(t)} :
     /\ n # ""
     /\ \A k \in 1..Len(n) : IsWord(CharAt(n, k))
     /\ hasClosingTag(t, n)}

\* C21: the block macros of a document are the names n, non-empty runs of
\* word characters, for which the text <</n>> is in the document: an opening
\* tag, or a closing tag with something else before >>, adds no name.
C21_ClosingTagNames == blockMacros = closingTagNames(NormalizeLineEndings(text))

\* A closing tag with a blank before >> was followed by one without.
C21_Witness ==
  /\ pc = "done"
  /\ text = "<</if >><</f>>"
  /\ blockMacros = {"f"}

\* No passage body of the document is a structured value.
noBodyParses ==
  \A h \in 0..(lineCount - 1) :
     isPassageHeader(lines[h + 1]) =>
       LET body == contentStrOf(lines, h + 1, passageEndIndexOf(lines, h))
       IN  ~tryFormatJson(body, indentStr).ok /\ ~tryFormatJsObject(body, indentStr).ok

\* C22: for a document in which no passage body is a structured value, the
\* returned text and line map are the same with formatJsonPassages on and
\* off.
C22_FallbackToPlain ==
  (pc = "done" /\ noBodyParses) =>
    \A k \in 1..Len(calls) :
       /\ calls[k].formattedText = formattedText
       /\ calls[k].formattedLinesBySource = formattedLinesBySource

\* A passage with a malformed body and a macro line was formatted with
\* formatJsonPassages on and then off.
C22_Witness ==
  /\ pc = "done"
  /\ Len(calls) = 1
  /\ calls[1].options.formatJsonPassages /\ ~options.formatJsonPassages
  /\ lines = <<"::P", "[1,", "<<if $a>><<else>>x">>
  /\ formattedText = "::P\n[1,\n<<if $a>>\n<<else>>\nx"

\* A line is some repetitions of the indent unit followed by a text that
\* does not start with a blank.
unitIndented(line) ==
  \E d \in 0..Len(line) :
     /\ StartsWith(line, Repeat(indentStr, d))
     /\ LET rest == SubSeq(line, d * Len(indentStr) + 1, Len(line))
        IN  rest = "" \/ CharAt(rest, 1) \notin {" ", "\t"}

\* C23: the lines of a reflowed structured passage are indented with the
\* indent unit of the configuration: tabs, indentationSize spaces, or the
\* empty unit when indentation is disabled.
C23_SerializedWithIndentUnit ==
  [][atReflowedHeader =>
       LET m == Len(SplitLines(serializedBody(lineIndex).text))
       IN  \A q \in (Len(outputLines') - m + 1)..Len(outputLines') :
              unitIndented(outputLines'[q])
    ]_vars

\* Source line i and all lines before it are blank.
leadingBlank(i) == \A j \in 0..i : Trim(lines[j + 1]) = ""

\* C24: a blank line at the start of the document, before the first passage
\* header, adds no output line, and its entry in the returned line map is
\* the empty list.
C24_LeadingBlanksDropped ==
  [][/\ (pc = "line" /\ lineIndex < lineCount /\ leadingBlank(lineIndex)) =>
          outputLines' = <<>>
     /\ pc' = "done" =>
          \A i \in 0..(lineCount - 1) :
             leadingBlank(i) => formattedLinesBySource'[i] = <<>>
    ]_vars

\* Two leading blank lines, the second of blanks, before a header.
C24_Witness ==
  /\ pc = "done"
  /\ lines = <<"", " \t", "::P">>
  /\ options.emptyLinesBeforePassages = "2"
  /\ formattedText = "::P"
  /\ formattedLinesBySource[0] = <<>> /\ formattedLinesBySource[1] = <<>>

\* Source line i is blank and comes after the first passage header.
blankAfterFirstHeader(i) ==
  /\ Trim(lines[i + 1]) = ""
  /\ \E h \in 0..(i - 1) : isPassageHeader(lines[h + 1])

\* C25 as stated: in the result, every blank source line after the first
\* passage header has one empty string as its entry, and the output holds an
\* empty line for each of them.
C25_BlankLinesKept ==
  pc = "done" =>
    /\ \A i \in 0..(lineCount - 1) :
         blankAfterFirstHeader(i) => formattedLinesBySource[i] = <<"">>
    /\ Cardinality({q \in 1..Len(outputLines) : outputLines[q] = ""})
         >= Cardinality({i \in 0..(lineCount - 1) : blankAfterFirstHeader(i)})

\* C25, amended: a blank source line after the first passage header that the
\* line loop reaches is put out as one empty line and gets one empty string
\* as its entry; under emptyLinesBeforePassages = "preserve" no later step
\* changes that entry or the output before it.
C25_BlankLineKeptUnderPreserve ==
  [][/\ (pc = "line" /\ lineIndex < lineCount /\ blankAfterFirstHeader(lineIndex)) =>
          /\ outputLines' = Append(outputLines, "")
          /\ formattedLinesBySource'[lineIndex] = <<"">>
     /\ options.emptyLinesBeforePassages = "preserve" =>
          /\ \A i \in 0..(lineCount - 1) :
               (blankAfterFirstHeader(i) /\ formattedLinesBySource[i] = <<"">>)
                 => formattedLinesBySource'[i] = <<"">>
          /\ Len(outputLines') >= Len(outputLines)
          /\ SubSeq(outputLines', 1, Len(outputLines)) = outputLines
    ]_vars

\* Two blank lines between two headers were kept under "preserve".
C25_Witness ==
  /\ pc = "done"
  /\ options.emptyLinesBeforePassages = "preserve"
  /\ lines = <<"::P", "", "", "::P">>
  /\ formattedText = "::P\n\n\n::P"
  /\ formattedLinesBySource[1] = <<"">> /\ formattedLinesBySource[2] = <<"">>

\* The parts of a list with every run of texts made one text.
RECURSIVE mergeTexts(_)
mergeTexts(parts) ==
  IF Len(parts) < 2 THEN parts
  ELSE IF {parts[1], parts[2]} \cap (OpeningParts \cup ClosingParts) = {}
  THEN mergeTexts(<<parts[1] \o parts[2]>> \o SubSeq(parts, 3, Len(parts)))
  ELSE <<parts[1]>> \o mergeTexts(Tail(parts))

\* The tokens of a list of parts: a token a tag, a token a run of texts that
\* is not blank, in the order of the parts.
partTokens(parts) ==
  LET merged == SelectSeq(mergeTexts(parts), LAMBDA p : Trim(p) # "")
  IN  [j \in 1..Len(merged) |->
         CASE merged[j] \in OpeningParts ->
                [value |-> merged[j], type |-> "opening-macro",
                 macroName |-> IF merged[j] = "<<if $a >= 1>>" THEN "if" ELSE "set"]
           [] merged[j] \in ClosingParts ->
                [value |-> merged[j], type |-> "closing-macro", macroName |-> "if"]
           [] OTHER -> [value |-> Trim(merged[j]), type |-> "text", macroName |-> ""]]

PartTokenizations == {<<Trim(Join(p, "")), partTokens(p)>> : p \in PartLists}

PartLines == {Trim(Join(p, "")) : p \in PartLists}

\* C26: a macro tag ends at the first >>, a > followed by another character
\* being part of the tag; a line of tags and texts gives one token a tag and
\* one token a run of text that is not blank, in the order of the line.
C26_TokensOfLine ==
  (pc = "token" /\ Trim(lines[lineIndex + 1]) \in PartLines)
    => <<Trim(lines[lineIndex + 1]), tokens>> \in PartTokenizations

C26_Witness ==
  /\ pc = "token" /\ tokenIndex = 0
  /\ lines = <<"<<if $a >= 1>> text<</if>>">>
  /\ tokens = <<[value |-> "<<if $a >= 1>>", type |-> "opening-macro", macroName |-> "if"],
                [value |-> "text", type |-> "text", macroName |-> ""],
                [value |-> "<</if>>", type |-> "closing-macro", macroName |-> "if"]>>

\* C27: the adjustment at a passage header that is not the first changes, of
\* the entries of earlier lines, only those of the blank lines before the
\* header that it removes from the output, or, where blank lines are
\* missing, the entry of the nearest earlier line that has output; the
\* entries of the blank lines that stay in the output and of blank lines
\* elsewhere are left as they are.
C27_AdjustmentFrame ==
  [][(atLaterHeader /\ options.emptyLinesBeforePassages # "preserve") =>
       LET N == targetEmptyLinesOf(options.emptyLinesBeforePassages)
           run == trailingEmptyCountOf(outputLines)
           withOutput == {j \in 0..(lineIndex - 1) : Len(formattedLinesBySource[j]) > 0}
       IN  \A j \in 0..(lineIndex - 1) :
              formattedLinesBySource'[j] # formattedLinesBySource[j] =>
                \/ run > N /\ j >= lineIndex - (run - N)
                \/ run < N /\ j \in withOutput /\ \A k \in withOutput : k <= j
    ]_vars

\* C28: every closing-macro token of a document has its name in the
\* document's block-macro set, so that rendering it first lowers indentLevel
\* by one, not below 0, and writes the tag at the lowered level.
C28_ClosingTagsDecrement ==
  [][(inTokenLoop /\ token.type = "closing-macro") =>
       /\ token.macroName \in blockMacros
       /\ indentLevel' = (IF indentLevel > 0 THEN indentLevel - 1 ELSE 0)
       /\ renderIndent' = indentLevel'
       /\ outputLines' = Append(outputLines, Repeat(indentStr, indentLevel') \o token.value)
    ]_vars

\* A closing tag is about to be rendered inside an open block.
C28_Witness ==
  /\ inTokenLoop /\ token.type = "closing-macro"
  /\ indentLevel = 1

\* C29: an opening tag whose name is both a block macro of the document and a
\* mid-block macro is rendered at the current indentLevel, which it then
\* raises by one; it is never rendered one level up.
C29_BlockBeforeMidBlock ==
  [][(/\ inTokenLoop /\ token.type = "opening-macro"
      /\ token.macroName \in blockMacros \cap midBlockMacros) =>
       /\ renderIndent' = indentLevel
       /\ indentLevel' = indentLevel + 1
       /\ outputLines' = Append(outputLines, Repeat(indentStr, indentLevel) \o token.value)
    ]_vars

\* <<option>> is about to be rendered inside an open block of a document
\* that closes option.
C29_Witness ==
  /\ inTokenLoop /\ token.type = "opening-macro"
  /\ token.macroName = "option"
  /\ "option" \in blockMacros \cap midBlockMacros
  /\ indentLevel > 0

\* C30: until the first passage header has been processed, every blank
\* source line is dropped: it adds no output line and its entry is the empty
\* list, also between lines that are not blank and in a document without
\* headers. So the first passage header never follows an empty output line,
\* and the returned text never starts with an empty line.
C30_BlanksDroppedUntilFirstHeader ==
  [][/\ (/\ pc = "line" /\ lineIndex < lineCount
         /\ Trim(lines[lineIndex + 1]) = ""
         /\ \A h \in 0..(lineIndex - 1) : ~isPassageHeader(lines[h + 1])) =>
          /\ outputLines' = outputLines
          /\ formattedLinesBySource'[lineIndex] = <<>>
     /\ (atHeader /\ \A h \in 0..(lineIndex - 1) : ~isPassageHeader(lines[h + 1])) =>
          /\ outputLines = <<>> \/ outputLines[Len(outputLines)] # ""
          /\ outputLines' = Append(outputLines, Trim(lines[lineIndex + 1]))
     /\ pc' = "done" =>
          /\ outputLines' # <<>> => outputLines'[1] # ""
          /\ ~StartsWith(formattedText', "\n")
          /\ (\A h \in 0..(lineCount - 1) : ~isPassageHeader(lines[h + 1])) =>
               \A k \in 1..Len(outputLines') : outputLines'[k] # ""
    ]_vars

\* A blank line between text and the first header has been dropped, with two
\* blank lines asked for before passages.
C30_Witness ==
  /\ pc = "done"
  /\ lines = <<"x", "", "::P">>
  /\ options.emptyLinesBeforePassages = "2"
  /\ formattedText = "x\n::P"
  /\ formattedLinesBySource[1] = <<>>

=============================================================================
